---- MODULE Spec2Model ----
(***************************************************************************)
(* Model of the azure-podcast-generator pipeline.                          *)
(*                                                                         *)
(*   Spec     the ReAct script generator, utils/llm.py                     *)
(*            document_to_podcast_script with execute_react_step_with_retry*)
(*            one action per backend call attempt and what it triggers     *)
(*   SpecApp  the Streamlit pipeline of app.py (document -> script ->      *)
(*            speech -> costs -> presentation)                             *)
(*   SpecSpeech    the markup builders and text_to_speech of utils/speech  *)
(*            and of the speech providers, applied to one script           *)
(*   SpecDocument  document_to_markdown of utils/document and of the       *)
(*            document providers, with the cache of st.cache_data          *)
(*   SpecChunks    podcast_script_to_ssml_chunks and synthesize_in_chunks  *)
(*            of utils/speech.py on scripts of up to MaxScript turns       *)
(*   SpecEscape    the message escaping of the speech providers on every   *)
(*            message of up to MaxMessage characters                       *)
(*   SpecCost      one AzureSpeechProvider instance that builds the markup *)
(*            of several scripts and synthesizes any of them               *)
(*   SpecConfig    create_providers of configurations.py and profiles.py   *)
(*   SpecFrame     several create_providers calls on one object, the dicts *)
(*            as objects that copy() duplicates and update() changes       *)
(*   SpecAccess    the tenant check at the top of app.py on one request    *)
(*   SpecRuns      two runs of the generator interleaved step by step on a *)
(*            heap of list objects, each with a speech provider instance   *)
(*   SpecExec      execute_react_step_with_retry on its own, the time of   *)
(*            every sleep recorded                                         *)
(*   SpecLoop      the generator, under weak fairness, on a backend that   *)
(*            answers every section-generation call without tool call      *)
(*                                                                         *)
(* Python dicts are records; a dict that lacks a key is a record whose     *)
(* DOMAIN lacks the field.  A JSON value that is not a dict is the record  *)
(* NotADict.  Python lists are sequences.  An insertion-ordered dict that  *)
(* is updated by key (sections) is a sequence of <<key, value>> pairs.     *)
(***************************************************************************)
EXTENDS Integers, Sequences, FiniteSets, TLC

\* ---------------------------------------------------------------- bounds
\* max_retries parameter of document_to_podcast_script (default 3)
max_retries == 1
\* cap on the number of accepted responses of one run that are irregular
\* (no tool call, arguments off the function schema, a section title other
\* than the planned one); errors raised by a call are not capped
MaxIrregular == 2
\* longest script the pipeline of app.py is run on
MaxTurns == 51
\* most pages the document backend reports
MaxPages == 2
\* most lines of a script handed to a markup builder
MaxLines == 2
\* most document conversions of one process
MaxConversions == 3
\* most accepted backend calls of one of two interleaved runs
MaxRunCalls == 2
\* passes of the section loop told apart on a backend that never calls the tool
MaxLoop == 3

\* ------------------------------------------------------- run parameters
voice_1 == "Andrew"
voice_2 == "Emma"
title == "AI in Action"
Durations == {5, 7}

\* ------------------------------------------------------------ variables
VARIABLES
    pc,                      \* position in document_to_podcast_script
    duration,                \* the duration argument
    messages,                \* the conversation transcript
    generation_steps,        \* the audit log
    total_prompt_tokens,
    total_completion_tokens,
    podcast_structure,       \* stage-2 result ({} until set)
    sections,                \* dict section_title -> section content
    final_script,            \* stage-6 result (None until set)
    sec_i,                   \* 1-based index of the for loop of stage 4
    section_title,           \* title of the section being generated
    section_retry_count,     \* section_retry_counts[section_title]
    retry_count,             \* retry_count of execute_react_step_with_retry
    response,                \* the PodcastScriptResponse returned
    \* ---- history variables (not program state)
    step_kinds,              \* per generation step: "ok" or "fallback"
    accepted_prompt,         \* prompt tokens of all responses execute returned
    accepted_completion,     \* completion tokens of the same
    attempted,               \* stages for which a backend call was made
    fell_back,               \* <<stage, 0>> or <<4, section index>> that fell back
    irregular,               \* number of irregular responses accepted
    return_path,             \* "none", "normal" or "critical"
    section_calls,           \* backend calls made for the current section
    sleeps,                  \* delays slept by the current execute call
    last_exec,               \* how the last execute call ended
    \* ---- app.py pipeline
    app,
    \* ---- the provider objects of one Streamlit server process
    prov,
    \* ---- two generation runs side by side, on a heap of list objects
    runs

gen_vars == <<pc, duration, messages, generation_steps, total_prompt_tokens,
              total_completion_tokens, podcast_structure, sections,
              final_script, sec_i, section_title, section_retry_count,
              retry_count, response, step_kinds, accepted_prompt,
              accepted_completion, attempted, fell_back, irregular,
              return_path, section_calls, sleeps, last_exec>>

vars == <<gen_vars, app, prov, runs>>

\* ------------------------------------------------------------- values
\* Python None
None == [none |-> TRUE]
\* a JSON value that is not an object (a number, a string, a list)
NotADict == [notdict |-> TRUE]
IsDict(v) == "notdict" \notin DOMAIN v /\ "none" \notin DOMAIN v
\* Python {} (the empty dict has no key)
EmptyDict == <<>>

RECURSIVE Pow2(_)
Pow2(n) == IF n = 0 THEN 1 ELSE 2 * Pow2(n - 1)

\* token counts the backend reports for a response to the transcript msgs:
\* one prompt token per message sent, more completion tokens for a tool call
UsageOf(msgs, function_call) ==
    [prompt_tokens |-> Len(msgs),
     completion_tokens |-> IF function_call = [none |-> TRUE] THEN 1 ELSE 2]

DefaultLanguage == "en-US"

\* ------------------------------------------- messages (llm.py 497-500)
SystemMsg == [role |-> "system", content |-> "prompt", tool_calls |-> <<>>, tool_call_id |-> <<>>]
UserMsg == [role |-> "user", content |-> "document", tool_calls |-> <<>>, tool_call_id |-> <<>>]
\* {"role": "assistant", "content": step_result["message"]}
AssistantMsg == [role |-> "assistant", content |-> "message", tool_calls |-> <<>>, tool_call_id |-> <<>>]
\* {"role": "assistant", "content": None | text, "tool_calls": [{"id": id, ...}]}
ToolCallMsg(id, content) == [role |-> "assistant", content |-> content, tool_calls |-> <<id>>, tool_call_id |-> <<>>]
\* {"role": "tool", "tool_call_id": id, ...}
ToolMsg(id) == [role |-> "tool", content |-> "result", tool_calls |-> <<>>, tool_call_id |-> id]

\* variant of SuccessMessages that numbers every call alike
SuccessMessages_sameid(msgs, function_call) ==
    LET m1 == Append(msgs, AssistantMsg)
        id == <<"call", 1>>
    IN  IF function_call # None
        THEN m1 \o <<ToolCallMsg(id, "none"), ToolMsg(id)>>
        ELSE m1

\* the success path of a stage: the assistant text, then, when the response
\* carries a tool call, the call and its result under id call_{len(messages)}
SuccessMessages(msgs, function_call) ==
    LET m1 == Append(msgs, AssistantMsg)
        id == <<"call", Len(m1)>>
    IN  IF function_call # None
        THEN m1 \o <<ToolCallMsg(id, "none"), ToolMsg(id)>>
        ELSE m1

\* variant of RecoveryMessages that starts the transcript anew
RecoveryMessages_fresh(msgs) ==
    LET id == <<"recovery_call", Len(msgs)>>
    IN  <<SystemMsg, UserMsg, ToolCallMsg(id, "recovery"), ToolMsg(id)>>

\* the recovery path of a stage: a synthesized call and result under id
\* recovery_call_{len(messages)}
RecoveryMessages(msgs) ==
    LET id == <<"recovery_call", Len(msgs)>>
    IN  msgs \o <<ToolCallMsg(id, "recovery"), ToolMsg(id)>>

\* ------------------------------------------------ backend behaviour
\* arguments a stage-1 / 3 / 5 tool call carries
AnalysisArgs == [key_points |-> "kp", themes |-> "th", audience_takeaways |-> "at"]
CharacterArgs == [host_1 |-> voice_1, host_2 |-> voice_2]
RefinementArgs == [improvements |-> "imp"]

\* entries of the section list of a stage-2 tool call
Intro == [title |-> "Intro", description |-> "d"]
Main == [title |-> "Main", description |-> "d"]
Untitled == [description |-> "d"]

\* section lists of a stage-2 tool call: as the schema asks, empty, with a
\* repeated title, with an entry without title, with an entry that is no dict
SectionLists ==
    {<<Intro>>, <<Intro, Main>>,
     <<>>, <<Intro, Intro>>, <<Untitled>>, <<NotADict>>, <<Intro, NotADict>>}

PlanArgs(d) ==
    {[sections |-> s, total_duration |-> d] : s \in SectionLists}
      \cup {[total_duration |-> d]}

Dialogue ==
    <<[speaker |-> voice_1, text |-> "t1"], [speaker |-> voice_2, text |-> "t2"]>>

\* a dialogue whose second line lacks the text
CutDialogue ==
    <<[speaker |-> voice_1, text |-> "t1"], [speaker |-> voice_2]>>

\* arguments of a stage-4 tool call for the section planned as t: as the
\* schema asks, under another title, without title, with a line off the schema
SectionArgs(t) ==
    {[section_title |-> t, dialogue |-> Dialogue],
     [section_title |-> "Other", dialogue |-> Dialogue],
     [dialogue |-> Dialogue],
     [section_title |-> t, dialogue |-> CutDialogue]}

ModelScript ==
    <<[name |-> voice_1, message |-> "m1"], [name |-> voice_2, message |-> "m2"]>>

\* arguments of a stage-6 tool call
FinalArgs ==
    {[config |-> [language |-> "nl-NL"], script |-> ModelScript],
     [config |-> [language |-> "nl-NL"], script |-> <<>>]}

Arguments(stage, d, t) ==
    CASE stage = 1 -> {AnalysisArgs}
      [] stage = 2 -> PlanArgs(d)
      [] stage = 3 -> {CharacterArgs}
      [] stage = 4 -> SectionArgs(t)
      [] stage = 5 -> {RefinementArgs}
      [] stage = 6 -> FinalArgs

\* what one client.chat.completions.create call (with the parsing of its
\* tool call) can do: raise a retriable error, raise any other error
\* (json.loads of the arguments included), or yield a response
Outcomes(stage, d, t, msgs) ==
    {[kind |-> "transient"], [kind |-> "error"]}
      \cup {[kind |-> "response", function_call |-> a, usage |-> UsageOf(msgs, a)] :
                a \in Arguments(stage, d, t) \cup {None}}

\* a regular response: a tool call with the fields the function schema
\* requires, a section list that is not empty and has distinct titles, the
\* planned title and a dialogue of full lines on a generated section, a script
\* that is not empty
IsRegular(stage, fc, t) ==
    /\ fc # None
    /\ stage = 2 => /\ "sections" \in DOMAIN fc
                    /\ fc.sections \in {<<Intro>>, <<Intro, Main>>}
    /\ stage = 4 => /\ "section_title" \in DOMAIN fc
                    /\ fc.section_title = t
                    /\ fc.dialogue = Dialogue
    /\ stage = 6 => Len(fc.script) > 0

IsIrregular(stage, o, t) ==
    o.kind = "response" /\ ~IsRegular(stage, o.function_call, t)

\* ------------------------- execute_react_step_with_retry (llm.py 383-452)
\* variant of ExecResult that gives up one attempt earlier
ExecResult_strict(o, rc) ==
    CASE o.kind = "response" -> "return"
      [] o.kind = "transient" -> IF rc + 1 < max_retries THEN "sleep" ELSE "raise"
      [] o.kind = "error" -> "raise"

\* one iteration of the while loop: what the attempt's outcome leads to
ExecResult(o, rc) ==
    CASE o.kind = "response" -> "return"
      [] o.kind = "transient" -> IF rc + 1 <= max_retries THEN "sleep" ELSE "raise"
      [] o.kind = "error" -> "raise"

\* the retriable branch below max_retries: sleep retry_delay * jitter and
\* double retry_delay; sleeps records the retry_delay of every sleep, in units
\* of initial_retry_delay (retry_delay is initial_retry_delay * 2^retry_count)
ExecSleep ==
    /\ retry_count' = retry_count + 1
    /\ sleeps' = Append(sleeps, Pow2(retry_count))
    /\ UNCHANGED last_exec

\* the call returns or raises: the next call starts with fresh counters
ExecEnd(o) ==
    /\ retry_count' = 0
    /\ sleeps' = <<>>
    /\ last_exec' = [result |-> ExecResult(o, retry_count),
                     cause |-> o.kind,
                     value |-> o,
                     at |-> <<pc, sec_i>>,
                     attempts |-> retry_count + 1,
                     sleeps |-> sleeps]

\* history of a backend call attempt
Attempt(stage, o) ==
    /\ IsIrregular(stage, o, section_title) => irregular < MaxIrregular
    /\ irregular' = irregular + (IF IsIrregular(stage, o, section_title) THEN 1 ELSE 0)
    /\ attempted' = attempted \cup {stage}
    /\ accepted_prompt' =
          accepted_prompt + (IF o.kind = "response" THEN o.usage.prompt_tokens ELSE 0)
    /\ accepted_completion' =
          accepted_completion + (IF o.kind = "response" THEN o.usage.completion_tokens ELSE 0)

\* ------------------------------------------- Python floats (IEEE binary64)
\* A float is [mant, exp] as float.hex() prints it: mant is the leading 1 and
\* the 13 hexadecimal digits after the point, exp the power of two.  The
\* arithmetic works on the 53 bits of the significand, lowest bit first, and
\* rounds to nearest, ties to even.
RECURSIVE BitsOf(_)
\* the bits of a natural number
BitsOf(n) == IF n = 0 THEN <<>> ELSE <<n % 2>> \o BitsOf(n \div 2)

RECURSIVE Trim(_)
\* without leading zero bits (the end of the sequence)
Trim(bits) ==
    IF bits # <<>> /\ bits[Len(bits)] = 0
    THEN Trim(SubSeq(bits, 1, Len(bits) - 1))
    ELSE bits

RECURSIVE AddBits(_, _, _)
AddBits(a, b, carry) ==
    IF a = <<>> /\ b = <<>>
    THEN IF carry = 1 THEN <<1>> ELSE <<>>
    ELSE LET x == IF a = <<>> THEN 0 ELSE Head(a)
             y == IF b = <<>> THEN 0 ELSE Head(b)
             s == x + y + carry
         IN  <<s % 2>> \o AddBits(IF a = <<>> THEN <<>> ELSE Tail(a),
                                  IF b = <<>> THEN <<>> ELSE Tail(b),
                                  s \div 2)

RECURSIVE MulBits(_, _)
\* the product of a bit sequence and a natural number
MulBits(a, n) ==
    IF n = 0 THEN <<>>
    ELSE LET twice == <<0>> \o MulBits(a, n \div 2)
         IN  IF n % 2 = 1 THEN AddBits(twice, a, 0) ELSE twice

Zeros(n) == [k \in 1..n |-> 0]

\* the significand bits of a float, lowest first
MantBits(x) ==
    LET nibble(j) == x.mant[14 - ((j - 1) \div 4)]
    IN  [j \in 1..53 |->
            IF j = 53 THEN 1
            ELSE (nibble(j) \div Pow2((j - 1) % 4)) % 2]

\* the float of 53 significand bits whose lowest bit weighs 2^low
FromBits(bits, low) ==
    LET digit(i) == bits[4 * (14 - i) + 1] + 2 * bits[4 * (14 - i) + 2]
                      + 4 * bits[4 * (14 - i) + 3] + 8 * bits[4 * (14 - i) + 4]
    IN  [mant |-> <<1, digit(2), digit(3), digit(4), digit(5), digit(6), digit(7),
                    digit(8), digit(9), digit(10), digit(11), digit(12),
                    digit(13), digit(14)>>,
         exp |-> low + 52]

\* the float nearest to bits * 2^low (bits not zero), ties to even
RoundBits(bits, low) ==
    LET b == Trim(bits)
        k == Len(b) - 53
    IN  IF k <= 0
        THEN FromBits(Zeros(-k) \o b, low + k)
        ELSE LET kept == SubSeq(b, k + 1, Len(b))
                 up == /\ b[k] = 1
                       /\ \/ kept[1] = 1
                          \/ \E i \in 1..(k - 1) : b[i] = 1
                 r == IF up THEN AddBits(kept, <<1>>, 0) ELSE kept
             IN  IF Len(r) = 54 THEN FromBits(Tail(r), low + k + 1)
                 ELSE FromBits(r, low + k)

\* float(n) for an int n > 0
Float(n) == RoundBits(BitsOf(n), 0)

\* n * x for an int n > 0 and a float x (the int is converted exactly)
FloatMul(n, x) == RoundBits(MulBits(MantBits(x), n), x.exp - 52)

\* x + y for positive floats
FloatAdd(x, y) ==
    LET low == IF x.exp < y.exp THEN x.exp - 52 ELSE y.exp - 52
    IN  RoundBits(AddBits(Zeros(x.exp - 52 - low) \o MantBits(x),
                          Zeros(y.exp - 52 - low) \o MantBits(y), 0), low)

\* the literals 0.2 and 0.6: 0x1.999999999999ap-3 and 0x1.3333333333333p-1
Float_0_2 == [mant |-> <<1, 9, 9, 9, 9, 9, 9, 9, 9, 9, 9, 9, 9, 10>>, exp |-> -3]
Float_0_6 == [mant |-> <<1, 3, 3, 3, 3, 3, 3, 3, 3, 3, 3, 3, 3, 3>>, exp |-> -1]

\* ---------------------------------- document_to_podcast_script helpers
\* variant of recover_generation_state with no recovery for the plan
recover_generation_state_noplan(error_step, d) ==
    IF error_step <= 0
    THEN [key_points |-> "Key point extracted from document",
          themes |-> "Main theme of the document",
          audience_takeaways |-> "What the audience should learn"]
    ELSE IF error_step = 2
    THEN [host_1 |-> voice_1, host_2 |-> voice_2]
    ELSE None

\* the floats duration * 0.2 and duration * 0.6 of every duration of the model
Products ==
    [d \in Durations |->
        [by_0_2 |-> FloatMul(d, Float_0_2), by_0_6 |-> FloatMul(d, Float_0_6)]]

\* recover_generation_state(error_step); the section durations are the
\* floats duration * 0.2 and duration * 0.6, total_duration is the int
recover_generation_state(error_step, d) ==
    IF error_step <= 0
    THEN [key_points |-> "Key point extracted from document",
          themes |-> "Main theme of the document",
          audience_takeaways |-> "What the audience should learn"]
    ELSE IF error_step <= 1
    THEN [sections |->
             <<[title |-> "Introduction", duration |-> Products[d].by_0_2,
                description |-> "Introduction to the topic"],
               [title |-> "Main Content", duration |-> Products[d].by_0_6,
                description |-> "Main discussion of the topic"],
               [title |-> "Conclusion", duration |-> Products[d].by_0_2,
                description |-> "Summary and takeaways"]>>,
          total_duration |-> d]
    ELSE IF error_step <= 2
    THEN [host_1 |-> voice_1, host_2 |-> voice_2]
    ELSE None

\* sections[key] = value on an insertion-ordered dict
DictSet(d, key, value) ==
    IF \E j \in 1..Len(d) : d[j][1] = key
    THEN [j \in 1..Len(d) |-> IF d[j][1] = key THEN <<key, value>> ELSE d[j]]
    ELSE Append(d, <<key, value>>)

\* the fallback section of stage 4 (llm.py 874-882)
fallback_section(t) ==
    [section_title |-> t,
     dialogue |-> <<[speaker |-> voice_1, text |-> "Let's talk about"],
                    [speaker |-> voice_2, text |-> "Yes, this is an important topic"],
                    [speaker |-> voice_1, text |-> "The key points to remember are"],
                    [speaker |-> voice_2, text |-> "That's a great summary"]>>]

\* the turns the stage-6 fallback copies from one section (llm.py 1048-1053)
SectionTurns(section) ==
    IF "dialogue" \in DOMAIN section
    THEN [k \in 1..Len(section.dialogue) |->
             [name |-> section.dialogue[k].speaker,
              message |-> section.dialogue[k].text]]
    ELSE <<>>

RECURSIVE AllSectionTurns(_)
AllSectionTurns(secs) ==
    IF secs = <<>> THEN <<>>
    ELSE SectionTurns(Head(secs)[2]) \o AllSectionTurns(Tail(secs))

\* dialogue["speaker"] or dialogue["text"] raises KeyError on some line of a
\* collected section (llm.py 1050-1052)
emergency_script_raises(secs) ==
    \E j \in 1..Len(secs) :
        /\ "dialogue" \in DOMAIN secs[j][2]
        /\ \E k \in 1..Len(secs[j][2].dialogue) :
              ~({"speaker", "text"} \subseteq DOMAIN secs[j][2].dialogue[k])

\* variant of emergency_script that returns the script as initialised
emergency_script_initial(secs) ==
    [config |-> [language |-> DefaultLanguage], script |-> <<>>]

\* the emergency script of stage 6 (llm.py 1040-1062)
emergency_script(secs) ==
    LET intro == <<[name |-> voice_1, message |-> "Welcome"],
                   [name |-> voice_2, message |-> "Thanks"]>>
        body == intro \o AllSectionTurns(secs)
        outro == <<[name |-> voice_1, message |-> "Let's summarize"],
                   [name |-> voice_2, message |-> "I think the key takeaways"],
                   [name |-> voice_1, message |-> "Thanks for listening"],
                   [name |-> voice_2, message |-> "See you next time"]>>
    IN  [config |-> [language |-> DefaultLanguage],
         script |-> IF Len(body) < 6 THEN body \o outro ELSE body]

\* variant of CompletionUsage whose total leaves the completion tokens out
CompletionUsage_promptonly(p, c) ==
    [prompt_tokens |-> p, completion_tokens |-> c, total_tokens |-> p]

\* CompletionUsage(prompt_tokens=p, completion_tokens=c, total_tokens=p + c)
CompletionUsage(p, c) ==
    [prompt_tokens |-> p, completion_tokens |-> c, total_tokens |-> p + c]

\* the return statement of the normal path (llm.py 1074-1086)
NormalResponse(fs, p, c, steps) ==
    [podcast |-> IF fs # None THEN fs
                 ELSE [config |-> [language |-> DefaultLanguage], script |-> <<>>],
     usage |-> CompletionUsage(p, c),
     generation_steps |-> steps]

\* variant of CriticalResponse that starts a new step list
CriticalResponse_nosteps(p, c, steps) ==
    [podcast |-> [config |-> [language |-> DefaultLanguage],
                  script |-> <<[name |-> voice_1, message |-> "I'm sorry"],
                               [name |-> voice_2, message |-> "Please try again"]>>],
     usage |-> CompletionUsage(p, c),
     generation_steps |-> <<>>]

\* the outer except handler (llm.py 1088-1107)
CriticalResponse(p, c, steps) ==
    [podcast |-> [config |-> [language |-> DefaultLanguage],
                  script |-> <<[name |-> voice_1, message |-> "I'm sorry"],
                               [name |-> voice_2, message |-> "Please try again"]>>],
     usage |-> CompletionUsage(p, c),
     generation_steps |-> steps]

NoResponse == [none |-> TRUE]

\* ------------------------------------------------- fragments of a stage
tokens == <<total_prompt_tokens, total_completion_tokens>>

AddUsage(o) ==
    /\ total_prompt_tokens' = total_prompt_tokens + o.usage.prompt_tokens
    /\ total_completion_tokens' = total_completion_tokens + o.usage.completion_tokens

AppendStep(name, reasoning, action, kind) ==
    /\ generation_steps' =
          Append(generation_steps,
                 [step |-> name, reasoning |-> reasoning, action |-> action])
    /\ step_kinds' = Append(step_kinds, kind)

\* the outer except handler of document_to_podcast_script (llm.py 1088-1107)
CriticalReturn ==
    /\ pc' = "returned"
    /\ return_path' = "critical"
    /\ response' = CriticalResponse(total_prompt_tokens, total_completion_tokens,
                                    generation_steps)

\* the try body of stages 1, 2, 3, 5, 6 after execute returned
StageSuccess(o, name, action) ==
    /\ messages' = SuccessMessages(messages, o.function_call)
    /\ AppendStep(name, "message", action, "ok")
    /\ AddUsage(o)
    /\ UNCHANGED fell_back

\* the except body of stages 1, 2, 3: `if not recovered: raise` hands the
\* error to the outer handler, else the recovery record and messages
StageRecovery(stage, name, recovered, next) ==
    IF recovered = None
    THEN /\ CriticalReturn
         /\ UNCHANGED <<messages, generation_steps, step_kinds, tokens, fell_back>>
    ELSE /\ AppendStep(name, "error", recovered, "fallback")
         /\ messages' = RecoveryMessages(messages)
         /\ fell_back' = fell_back \cup {<<stage, 0>>}
         /\ pc' = next
         /\ UNCHANGED <<tokens, response, return_path>>

\* execute sleeps and tries again: the stage has not moved
StageSleep ==
    /\ ExecSleep
    /\ UNCHANGED <<pc, messages, generation_steps, step_kinds, tokens, fell_back>>

\* a stage is left by its try body
StageLeft(next) ==
    /\ pc' = next
    /\ UNCHANGED <<response, return_path>>

\* ------------------------------------------------------------ actions
GenInit ==
    /\ pc = "setup"
    /\ duration \in Durations
    /\ messages = <<>>
    /\ generation_steps = <<>>
    /\ total_prompt_tokens = 0
    /\ total_completion_tokens = 0
    /\ podcast_structure = EmptyDict
    /\ sections = <<>>
    /\ final_script = None
    /\ sec_i = 1
    /\ section_title = ""
    /\ section_retry_count = 0
    /\ retry_count = 0
    /\ response = NoResponse
    /\ step_kinds = <<>>
    /\ accepted_prompt = 0
    /\ accepted_completion = 0
    /\ attempted = {}
    /\ fell_back = {}
    /\ irregular = 0
    /\ return_path = "none"
    /\ section_calls = 0
    /\ sleeps = <<>>
    /\ last_exec = [result |-> "none"]

\* llm.py 471-529: build the client, format the prompt, start the transcript.
\* AzureOpenAI(...) raises when no endpoint / credential is configured; these
\* lines are outside the try statement of line 581
Setup ==
    /\ pc = "setup"
    /\ \E client_ok \in BOOLEAN :
          IF client_ok
          THEN /\ pc' = "step1"
               /\ messages' = <<SystemMsg, UserMsg>>
               /\ UNCHANGED return_path
          ELSE /\ pc' = "raised"
               /\ return_path' = "raised"
               /\ UNCHANGED messages
    /\ UNCHANGED <<duration, generation_steps, tokens, podcast_structure, sections,
                   final_script, sec_i, section_title, section_retry_count,
                   retry_count, response, step_kinds, accepted_prompt,
                   accepted_completion, attempted, fell_back, irregular,
                   section_calls, sleeps, last_exec, app, prov, runs>>

\* Step 1: Content Analysis (llm.py 582-656)
Step1 ==
    /\ pc = "step1"
    /\ \E o \in Outcomes(1, duration, "", messages) :
          /\ Attempt(1, o)
          /\ LET r == ExecResult(o, retry_count) IN
             \/ r = "sleep" /\ StageSleep /\ UNCHANGED <<response, return_path>>
             \/ /\ r = "return"
                /\ ExecEnd(o)
                /\ StageSuccess(o, "Content Analysis",
                      IF o.function_call # None THEN o.function_call ELSE EmptyDict)
                /\ StageLeft("step2")
             \/ /\ r = "raise"
                /\ ExecEnd(o)
                /\ StageRecovery(1, "Content Analysis (Recovery)",
                                 recover_generation_state(0, duration), "step2")
    /\ UNCHANGED <<duration, podcast_structure, sections, final_script, sec_i,
                   section_title, section_retry_count, section_calls, app, prov, runs>>

\* Step 2: Structure Planning (llm.py 658-732)
Step2 ==
    /\ pc = "step2"
    /\ \E o \in Outcomes(2, duration, "", messages) :
          /\ Attempt(2, o)
          /\ LET r == ExecResult(o, retry_count) IN
             \/ r = "sleep" /\ StageSleep
                /\ UNCHANGED <<podcast_structure, response, return_path>>
             \/ /\ r = "return"
                /\ ExecEnd(o)
                /\ podcast_structure' =
                      IF o.function_call # None THEN o.function_call
                      ELSE podcast_structure
                /\ StageSuccess(o, "Structure Planning", podcast_structure')
                /\ StageLeft("step3")
             \/ /\ r = "raise"
                /\ ExecEnd(o)
                /\ podcast_structure' = recover_generation_state(1, duration)
                /\ StageRecovery(2, "Structure Planning (Recovery)",
                                 podcast_structure', "step3")
    /\ UNCHANGED <<duration, sections, final_script, sec_i, section_title,
                   section_retry_count, section_calls, app, prov, runs>>

\* Step 3: Character Development (llm.py 734-808)
Step3 ==
    /\ pc = "step3"
    /\ \E o \in Outcomes(3, duration, "", messages) :
          /\ Attempt(3, o)
          /\ LET r == ExecResult(o, retry_count) IN
             \/ r = "sleep" /\ StageSleep /\ UNCHANGED <<response, return_path>>
             \/ /\ r = "return"
                /\ ExecEnd(o)
                /\ StageSuccess(o, "Character Development",
                      IF o.function_call # None THEN o.function_call ELSE EmptyDict)
                /\ StageLeft("step4_head")
             \/ /\ r = "raise"
                /\ ExecEnd(o)
                /\ StageRecovery(3, "Character Development (Recovery)",
                                 recover_generation_state(2, duration), "step4_head")
    /\ UNCHANGED <<duration, podcast_structure, sections, final_script, sec_i,
                   section_title, section_retry_count, section_calls, app, prov, runs>>

\* Step 4, loop header (llm.py 811-817): the test for planned sections, the
\* next section of the for loop and its title.  section.get raises
\* AttributeError on an entry that is not a dict; the header is outside the
\* inner try, so that error reaches the outer handler
Step4Head ==
    /\ pc = "step4_head"
    /\ IF \/ "sections" \notin DOMAIN podcast_structure
          \/ sec_i > Len(podcast_structure.sections)
       THEN /\ pc' = "step5"
            /\ UNCHANGED <<section_title, section_retry_count, response, return_path>>
       ELSE LET section == podcast_structure.sections[sec_i] IN
            IF ~IsDict(section)
            THEN /\ CriticalReturn
                 /\ UNCHANGED <<section_title, section_retry_count>>
            ELSE /\ section_title' =
                       IF "title" \in DOMAIN section THEN section.title
                       ELSE "Section " \o ToString(sec_i)
                 /\ section_retry_count' = 0
                 /\ pc' = "step4"
                 /\ UNCHANGED <<response, return_path>>
    /\ UNCHANGED <<duration, messages, generation_steps, tokens, podcast_structure,
                   sections, final_script, sec_i, retry_count, step_kinds,
                   accepted_prompt, accepted_completion, attempted, fell_back,
                   irregular, section_calls, sleeps, last_exec, app, prov, runs>>

\* the section is done (section_generated = True): on to the next one
SectionDone ==
    /\ pc' = "step4_head"
    /\ sec_i' = sec_i + 1
    /\ section_calls' = 0

\* variant of SectionExcept that records a step for every failed attempt
SectionExcept_everytime(msgs) ==
    /\ section_retry_count' = section_retry_count + 1
    /\ UNCHANGED tokens
    /\ AppendStep("Section Generation: " \o section_title \o " (Fallback)",
                  "error", fallback_section(section_title), "fallback")
    /\ IF section_retry_count + 1 > max_retries
       THEN /\ sections' = DictSet(sections, section_title,
                                   fallback_section(section_title))
            /\ messages' = RecoveryMessages(msgs)
            /\ fell_back' = fell_back \cup {<<4, sec_i>>}
            /\ SectionDone
       ELSE /\ messages' = msgs
            /\ section_calls' = section_calls + 1
            /\ UNCHANGED <<pc, sec_i, sections, fell_back>>

\* the except body of the section loop (llm.py 868-912), entered with the
\* transcript msgs
SectionExcept(msgs) ==
    /\ section_retry_count' = section_retry_count + 1
    /\ UNCHANGED tokens
    /\ IF section_retry_count + 1 > max_retries
       THEN /\ sections' = DictSet(sections, section_title,
                                   fallback_section(section_title))
            /\ messages' = RecoveryMessages(msgs)
            /\ AppendStep("Section Generation: " \o section_title \o " (Fallback)",
                          "error", fallback_section(section_title), "fallback")
            /\ fell_back' = fell_back \cup {<<4, sec_i>>}
            /\ SectionDone
       ELSE /\ messages' = msgs
            /\ section_calls' = section_calls + 1
            /\ UNCHANGED <<pc, sec_i, sections, generation_steps, step_kinds,
                           fell_back>>

\* Step 4, one backend call of the while loop of a section (llm.py 819-912)
Step4 ==
    /\ pc = "step4"
    /\ \E o \in Outcomes(4, duration, section_title, messages) :
          /\ Attempt(4, o)
          /\ LET r == ExecResult(o, retry_count) IN
             \/ /\ r = "sleep"
                /\ StageSleep
                /\ section_calls' = section_calls + 1
                /\ UNCHANGED <<sec_i, sections, section_retry_count>>
             \/ /\ r = "return"
                /\ ExecEnd(o)
                /\ LET fc == o.function_call IN
                   IF fc = None
                   THEN \* no tool call: nothing generated, the loop goes on
                        /\ messages' = Append(messages, AssistantMsg)
                        /\ AddUsage(o)
                        /\ section_calls' = section_calls + 1
                        /\ UNCHANGED <<pc, sec_i, sections, section_retry_count,
                                       generation_steps, step_kinds, fell_back>>
                   ELSE IF "section_title" \notin DOMAIN fc
                   THEN \* section_content["section_title"] raises KeyError
                        SectionExcept(Append(messages, AssistantMsg))
                   ELSE /\ sections' = DictSet(sections, fc.section_title, fc)
                        /\ messages' = SuccessMessages(messages, fc)
                        /\ AppendStep("Section Generation: " \o section_title,
                                      "message", fc, "ok")
                        /\ AddUsage(o)
                        /\ SectionDone
                        /\ UNCHANGED <<section_retry_count, fell_back>>
             \/ /\ r = "raise"
                /\ ExecEnd(o)
                /\ SectionExcept(messages)
    /\ UNCHANGED <<duration, podcast_structure, final_script, section_title,
                   response, return_path, app, prov, runs>>

\* Step 5: Review and Refine (llm.py 914-990)
Step5 ==
    /\ pc = "step5"
    /\ \E o \in Outcomes(5, duration, "", messages) :
          /\ Attempt(5, o)
          /\ LET r == ExecResult(o, retry_count) IN
             \/ r = "sleep" /\ StageSleep
             \/ /\ r = "return"
                /\ ExecEnd(o)
                /\ StageSuccess(o, "Review and Refinement", o.function_call)
                /\ pc' = "step6"
             \/ /\ r = "raise"
                /\ ExecEnd(o)
                /\ messages' = RecoveryMessages(messages)
                /\ AppendStep("Review and Refinement (Minimal)", "error",
                              [improvements |-> "minimal"], "fallback")
                /\ fell_back' = fell_back \cup {<<5, 0>>}
                /\ UNCHANGED tokens
                /\ pc' = "step6"
    /\ UNCHANGED <<duration, podcast_structure, sections, final_script, sec_i,
                   section_title, section_retry_count, response, return_path,
                   section_calls, app, prov, runs>>

\* Step 6: Finalize Script, and the return of the normal path (llm.py 992-1086)
Step6 ==
    /\ pc = "step6"
    /\ \E o \in Outcomes(6, duration, "", messages) :
          /\ Attempt(6, o)
          /\ LET r == ExecResult(o, retry_count) IN
             \/ /\ r = "sleep"
                /\ StageSleep
                /\ UNCHANGED <<final_script, response, return_path>>
             \/ /\ r = "return"
                /\ ExecEnd(o)
                /\ final_script' =
                      IF o.function_call # None THEN o.function_call ELSE final_script
                /\ StageSuccess(o, "Script Finalization", final_script')
                /\ pc' = "returned"
                /\ return_path' = "normal"
                /\ response' = NormalResponse(final_script', total_prompt_tokens',
                                              total_completion_tokens',
                                              generation_steps')
             \/ /\ r = "raise"
                /\ ExecEnd(o)
                /\ IF emergency_script_raises(sections)
                   THEN \* the handler raises: on to the outer handler
                        /\ CriticalReturn
                        /\ UNCHANGED <<final_script, generation_steps, step_kinds,
                                       fell_back, messages, tokens>>
                   ELSE /\ final_script' = emergency_script(sections)
                        /\ AppendStep("Script Finalization (Emergency)", "error",
                                      final_script', "fallback")
                        /\ fell_back' = fell_back \cup {<<6, 0>>}
                        /\ UNCHANGED <<messages, tokens>>
                        /\ pc' = "returned"
                        /\ return_path' = "normal"
                        /\ response' = NormalResponse(final_script',
                                                      total_prompt_tokens,
                                                      total_completion_tokens,
                                                      generation_steps')
    /\ UNCHANGED <<duration, podcast_structure, sections, sec_i, section_title,
                   section_retry_count, section_calls, app, prov, runs>>

\* --------------------------------------------------- documents and bytes
\* uploaded bytes are sequences of numbers 0..255; the character of a code
\* point
Chr(c) ==
    IF c = 35 THEN "#" ELSE IF c = 72 THEN "H" ELSE IF c = 105 THEN "i"
    ELSE "U+" \o ToString(c)

RECURSIVE decode(_)
\* bytes.decode("utf-8") on one- and two-byte sequences: ok and the characters,
\* or not ok for a UnicodeDecodeError
decode(bytes) ==
    IF bytes = <<>> THEN [ok |-> TRUE, text |-> <<>>]
    ELSE IF bytes[1] < 128
    THEN LET rest == decode(Tail(bytes))
         IN  [ok |-> rest.ok,
              text |-> IF rest.ok THEN <<Chr(bytes[1])>> \o rest.text ELSE <<>>]
    ELSE IF /\ bytes[1] \in 194..223
            /\ Len(bytes) >= 2
            /\ bytes[2] \in 128..191
    THEN LET rest == decode(Tail(Tail(bytes)))
         IN  [ok |-> rest.ok,
              text |-> IF rest.ok
                       THEN <<Chr((bytes[1] - 192) * 64 + (bytes[2] - 128))>>
                            \o rest.text
                       ELSE <<>>]
    ELSE [ok |-> FALSE, text |-> <<>>]

\* what the user uploads: the extension of the file name, the MIME type the
\* browser reports for it, and the content
Uploads ==
    {[ext |-> "pdf", type |-> "application/pdf", bytes |-> <<37, 80>>],
     [ext |-> "doc", type |-> "application/msword", bytes |-> <<208, 207>>],
     [ext |-> "txt", type |-> "text/plain", bytes |-> <<72, 105>>],
     [ext |-> "md", type |-> "text/markdown", bytes |-> <<35, 195, 169>>],
     [ext |-> "txt", type |-> "text/plain", bytes |-> <<72, 255>>]}

\* ------------------------------------------------ the pipeline of app.py
\* voice elements the speech backend takes in one request (speech.py 59-60, 81)
VoiceLimit == 50

\* const.py 11-36
AZURE_HD_VOICES ==
    [n \in {"Alloy", "Adam", "Andrew", "Aria", "Ava", "Brian", "Davis", "Emma",
            "Jenny", "Nova", "Phoebe", "Serena", "Steffan"} |-> "en-US-" \o n]

\* uploaded_file.type values the uploader lets through
FileTypes == {"application/pdf", "application/msword", "text/plain", "text/markdown"}

\* variant of DocumentIntelligenceTypes that also lists plain text
DocumentIntelligenceTypes_withtext ==
    {"application/pdf", "image/png", "image/jpeg", "application/msword",
     "application/vnd.openxmlformats-officedocument.wordprocessingml.document",
     "application/vnd.ms-powerpoint",
     "application/vnd.openxmlformats-officedocument.presentationml.presentation",
     "text/plain", "text/markdown"}

\* the types app.py sends to Document Intelligence (app.py 184-192)
DocumentIntelligenceTypes ==
    {"application/pdf", "image/png", "image/jpeg", "application/msword",
     "application/vnd.openxmlformats-officedocument.wordprocessingml.document",
     "application/vnd.ms-powerpoint",
     "application/vnd.openxmlformats-officedocument.presentationml.presentation"}

\* a script of n turns as the generator returns it
Turns(n) ==
    [k \in 1..n |-> [name |-> IF k % 2 = 1 THEN voice_1 ELSE voice_2,
                      message |-> IF k % 2 = 1 THEN "Hello <there>" ELSE "Hi"]]

TurnCounts == {0, 2, VoiceLimit, MaxTurns}

\* what document_to_podcast_script can hand to app.py
ScriptResponses ==
    {[podcast |-> [config |-> [language |-> DefaultLanguage], script |-> Turns(n)],
      usage |-> CompletionUsage(p, 7),
      generation_steps |-> <<>>] : n \in TurnCounts, p \in {0, 12}}

\* utils.speech.podcast_script_to_ssml (speech.py 39-55): one speak document
\* with one voice element per line of the script, the message embedded as is
podcast_script_to_ssml(podcast) ==
    [language |-> podcast.config.language,
     voices |-> [k \in 1..Len(podcast.script) |->
                   [name |-> IF podcast.script[k].name \in DOMAIN AZURE_HD_VOICES
                             THEN AZURE_HD_VOICES[podcast.script[k].name]
                             ELSE AZURE_HD_VOICES["Andrew"],
                    text |-> podcast.script[k].message]]]

\* utils/cost.py, in units of 10^-8 USD
calculate_azure_document_intelligence_costs(pages) == pages * 1000000
calculate_azure_ai_speech_costs(characters) == 3000 * characters
\* variant of calculate_azure_openai_costs that bills the prompt only
calculate_azure_openai_costs_promptonly(input_tokens, output_tokens) ==
    275 * input_tokens

calculate_azure_openai_costs(input_tokens, output_tokens) ==
    275 * input_tokens + 1100 * output_tokens

RECURSIVE SumLen(_)
\* sum(len(item["message"]) for item in podcast_script)
SumLen(script) ==
    IF script = <<>> THEN 0 ELSE Len(Head(script).message) + SumLen(Tail(script))

AppInit ==
    app = [pc |-> "start",
           file_type |-> "",
           bytes_data |-> <<>>,
           document_response |-> None,
           podcast_response |-> None,
           ssml |-> None,
           audio |-> None,
           costs |-> None,
           total |-> None,
           final_audio |-> FALSE,
           presented |-> FALSE,
           error |-> "",
           log |-> <<>>,
           document_requests |-> 0,
           speech_requests |-> <<>>]

\* variant of AppAfter that goes from the upload straight to the script
AppAfter_skipdocument(stage) ==
    CASE stage = "start" -> "script"
      [] stage = "document" -> "script"
      [] stage = "script" -> "ssml"
      [] stage = "ssml" -> "speech"
      [] stage = "speech" -> "costs"
      [] stage = "costs" -> "present"
      [] stage = "present" -> "done"

\* the statement after a stage of the pipeline (app.py 171-255)
AppAfter(stage) ==
    CASE stage = "start" -> "document"
      [] stage = "document" -> "script"
      [] stage = "script" -> "ssml"
      [] stage = "ssml" -> "speech"
      [] stage = "speech" -> "costs"
      [] stage = "costs" -> "present"
      [] stage = "present" -> "done"

\* variant of AppRaise that notes the error and goes on
AppRaise_swallow(a, stage, e) ==
    [a EXCEPT !.pc = AppAfter(stage), !.error = e, !.log = Append(@, stage)]

\* an exception that nothing in app.py catches ends the script run
AppRaise(a, stage, e) ==
    [a EXCEPT !.pc = "error", !.error = e, !.log = Append(@, stage)]

AppStep(a, stage) ==
    [a EXCEPT !.pc = AppAfter(stage), !.log = Append(@, stage)]

\* app.py 171-173: a file was uploaded and the button pressed
AppStart ==
    /\ app.pc = "start"
    /\ \E u \in Uploads :
          /\ u.type \in FileTypes
          /\ app' = [app EXCEPT !.pc = AppAfter("start"), !.file_type = u.type,
                                !.bytes_data = u.bytes]
    /\ UNCHANGED <<gen_vars, prov, runs>>

\* app.py 183-197: Document Intelligence for the listed types, UTF-8
\* decoding for every other type
AppDocument ==
    /\ app.pc = "document"
    /\ IF app.file_type \in DocumentIntelligenceTypes
       THEN \/ \E pages \in 1..MaxPages :
                 app' = [AppStep(app, "document") EXCEPT
                            !.document_response =
                                [markdown |-> <<"#", "H", "i">>, pages |-> pages],
                            !.document_requests = @ + 1]
            \/ app' = [AppRaise(app, "document", "document backend error") EXCEPT
                          !.document_requests = @ + 1]
       ELSE IF decode(app.bytes_data).ok
       THEN app' = [AppStep(app, "document") EXCEPT
                       !.document_response =
                           [markdown |-> decode(app.bytes_data).text, pages |-> 0]]
       ELSE app' = AppRaise(app, "document", "UnicodeDecodeError")
    /\ UNCHANGED <<gen_vars, prov, runs>>

\* app.py 205-223: document_to_podcast_script and podcast_response.podcast["script"]
AppScript ==
    /\ app.pc = "script"
    /\ \/ \E r \in ScriptResponses :
             app' = [AppStep(app, "script") EXCEPT !.podcast_response = r]
       \/ app' = AppRaise(app, "script", "client setup error")
    /\ UNCHANGED <<gen_vars, prov, runs>>

\* app.py 232: ssml = podcast_script_to_ssml(podcast_response.podcast)
AppSsml ==
    /\ app.pc = "ssml"
    /\ app' = [AppStep(app, "ssml") EXCEPT
                  !.ssml = podcast_script_to_ssml(app.podcast_response.podcast)]
    /\ UNCHANGED <<gen_vars, prov, runs>>

\* app.py 233 with utils.speech.text_to_speech (speech.py 11-37): one request
\* with the whole markup; audio only for SynthesizingAudioCompleted
AppSpeech ==
    /\ app.pc = "speech"
    /\ \E reason \in {"SynthesizingAudioCompleted", "Canceled", "Other"} :
          LET sent == [app EXCEPT
                          !.speech_requests = Append(@, Len(app.ssml.voices))]
          IN  IF reason = "SynthesizingAudioCompleted"
              THEN app' = [AppStep(sent, "speech") EXCEPT
                              !.audio = [voices |-> Len(app.ssml.voices)]]
              ELSE IF reason = "Canceled"
              THEN app' = AppRaise(sent, "speech", "Speech synthesis canceled")
              ELSE app' = AppRaise(sent, "speech", "Speech synthesis failed")
    /\ UNCHANGED <<gen_vars, prov, runs>>

\* app.py 241-255: the three costs, then final_audio = True
AppCosts ==
    /\ app.pc = "costs"
    /\ app' = [AppStep(app, "costs") EXCEPT
                  !.costs =
                      [document |-> calculate_azure_document_intelligence_costs(
                                        app.document_response.pages),
                       openai |-> calculate_azure_openai_costs(
                                        app.podcast_response.usage.prompt_tokens,
                                        app.podcast_response.usage.completion_tokens),
                       speech |-> calculate_azure_ai_speech_costs(
                                        SumLen(app.podcast_response.podcast.script))],
                  !.final_audio = TRUE]
    /\ UNCHANGED <<gen_vars, prov, runs>>

\* app.py 258-312: the tabs with audio, transcript, steps and costs
AppPresent ==
    /\ app.pc = "present"
    /\ app.final_audio
    /\ app' = [AppStep(app, "present") EXCEPT
                  !.presented = TRUE,
                  !.total = app.costs.speech + app.costs.openai
                            + app.costs.document]
    /\ UNCHANGED <<gen_vars, prov, runs>>

AppIdle == app = [pc |-> "idle"]

ProvIdle == prov = [last |-> None]

RunsIdle == runs = [pc |-> "idle"]

Init == GenInit /\ AppIdle /\ ProvIdle /\ RunsIdle

Next ==
    \/ Setup
    \/ Step1
    \/ Step2
    \/ Step3
    \/ Step4Head
    \/ Step4
    \/ Step5
    \/ Step6

Spec == Init /\ [][Next]_vars

InitApp == GenInit /\ AppInit /\ ProvIdle /\ RunsIdle

NextApp ==
    \/ AppStart
    \/ AppDocument
    \/ AppScript
    \/ AppSsml
    \/ AppSpeech
    \/ AppCosts
    \/ AppPresent

SpecApp == InitApp /\ [][NextApp]_vars

\* ------------------------------------------- markup builders and synthesis
\* A message is a sequence of one-character strings, so that escaping is a
\* computation on characters.
amp == <<"&", "a", "m", "p", ";">>
lt == <<"&", "l", "t", ";">>
gt == <<"&", "g", "t", ";">>
quot == <<"&", "q", "u", "o", "t", ";">>
apos == <<"&", "a", "p", "o", "s", ";">>

RECURSIVE replace(_, _, _)
\* str.replace(old, new) for a one-character old
replace(text, old, new) ==
    IF text = <<>> THEN <<>>
    ELSE (IF Head(text) = old THEN new ELSE <<Head(text)>>)
         \o replace(Tail(text), old, new)

\* variant of escape that replaces the & last
escape_amplast(message) ==
    replace(replace(replace(replace(replace(message,
        "<", lt), ">", gt), "\"", quot), "'", apos), "&", amp)

\* the chain of replace calls of the providers (azure_speech.py 148-156,
\* azure_speech_multitalker.py 116-124, basic_speech.py 55-63)
escape(message) ==
    replace(replace(replace(replace(replace(message,
        "&", amp), "<", lt), ">", gt), "\"", quot), "'", apos)

\* message texts a script can carry
Texts ==
    {<<"H", "i">>, <<"a", "&", "b">>, <<"<", "b", ">">>, <<"\"", "'">>}

\* speaker labels: the names the generator writes (llm.py JSON_SCHEMA "name")
\* and the keys the provider schema asks for (azure_openai.py 74-77)
Names == {"Andrew", "Emma", "Narrator"}
SpeakerKeys == {"speaker_1", "speaker_2", "speaker_3"}

\* lines of a script, in the generator's and in the providers' layout
NameLines == {[name |-> n, message |-> t] : n \in Names, t \in Texts}
SpeakerLines == {[speaker |-> s, message |-> t] : s \in SpeakerKeys, t \in Texts}

\* scripts of at most MaxLines lines, all lines in one layout
ScriptsOf(lines) ==
    UNION {[1..n -> lines] : n \in 0..MaxLines}

Podcasts ==
    {[config |-> [language |-> DefaultLanguage], script |-> s] :
        s \in ScriptsOf(NameLines) \cup ScriptsOf(SpeakerLines)}

\* what a Python call does: it returns a value or raises
Return(v) == [kind |-> "return", value |-> v]
Raise(e) == [kind |-> "raise", error |-> e]

HasKey(script, key) == \A k \in 1..Len(script) : key \in DOMAIN script[k]

\* utils.speech.podcast_script_to_ssml as a call: line["name"] of a line
\* without that key is a KeyError
utils_podcast_script_to_ssml(podcast) ==
    IF HasKey(podcast.script, "name")
    THEN Return(podcast_script_to_ssml(podcast))
    ELSE Raise(<<"KeyError">>)

\* variant of Batches that leaves out a last slice that is not full
Batches_fullonly(script, chunk_size) ==
    [j \in 1..(Len(script) \div chunk_size) |->
        SubSeq(script, (j - 1) * chunk_size + 1, j * chunk_size)]

\* the slices script[i:i+chunk_size] for i in range(0, len, chunk_size)
Batches(script, chunk_size) ==
    [j \in 1..((Len(script) + chunk_size - 1) \div chunk_size) |->
        SubSeq(script, (j - 1) * chunk_size + 1,
               IF j * chunk_size < Len(script) THEN j * chunk_size
               ELSE Len(script))]

\* variant of podcast_script_to_ssml_chunks with chunks of one element less
podcast_script_to_ssml_chunks_shorter(podcast) ==
    IF HasKey(podcast.script, "name")
    THEN Return([j \in DOMAIN Batches(podcast.script, VoiceLimit - 1) |->
                   podcast_script_to_ssml(
                       [podcast EXCEPT !.script =
                            Batches(podcast.script, VoiceLimit - 1)[j]])])
    ELSE Raise(<<"KeyError">>)

\* utils.speech.podcast_script_to_ssml_chunks (speech.py 57-88)
podcast_script_to_ssml_chunks(podcast) ==
    IF HasKey(podcast.script, "name")
    THEN Return([j \in DOMAIN Batches(podcast.script, VoiceLimit) |->
                   podcast_script_to_ssml(
                       [podcast EXCEPT !.script =
                            Batches(podcast.script, VoiceLimit)[j]])])
    ELSE Raise(<<"KeyError">>)

\* dict.get(key, default) on a record
Get(dict, key, default) == IF key \in DOMAIN dict THEN dict[key] ELSE default

\* the voice table of the provider module (azure_speech.py 15-29), the same
\* entries as the table of const.py
PROVIDER_HD_VOICES == AZURE_HD_VOICES

\* AzureSpeechProvider.cost, the class attribute (azure_speech.py 46)
AzureSpeechProvider_cost == 0

\* AzureSpeechProvider.__init__ (azure_speech.py 48-56): the instance
\* attributes; cost is not among them until podcast_script_to_ssml sets it
AzureSpeechProvider_init(kwargs) ==
    [class |-> "AzureSpeechProvider",
     voices |-> Get(kwargs, "voices", PROVIDER_HD_VOICES),
     voice_1 |-> Get(kwargs, "voice_1", "Andrew"),
     voice_2 |-> Get(kwargs, "voice_2", "Ava")]

\* AzureSpeechMultitalker.__init__ (azure_speech_multitalker.py 19-24) keeps
\* nothing of kwargs
AzureSpeechMultitalker_init(kwargs) == [class |-> "AzureSpeechMultitalker"]

\* BasicSpeechProvider.__init__ (basic_speech.py 14-20)
BasicSpeechProvider_init(kwargs) ==
    [class |-> "BasicSpeechProvider",
     voices |-> Get(kwargs, "voices",
                    [n \in {"Andrew", "Emma"} |->
                        IF n = "Andrew" THEN "en-US-Male-1" ELSE "en-US-Female-1"]),
     rate |-> Get(kwargs, "rate", "medium"),
     pitch |-> Get(kwargs, "pitch", "medium")]

\* self.cost as Python resolves it: the instance attribute, else the class one
self_cost(self) == Get(self, "cost", AzureSpeechProvider_cost)

\* self.cost = value: always an attribute of the instance
set_self_cost(self, value) ==
    [k \in DOMAIN self \cup {"cost"} |-> IF k = "cost" THEN value ELSE self[k]]

RECURSIVE SumEscaped(_)
\* character_count after the loop: the lengths of the escaped messages
SumEscaped(script) ==
    IF script = <<>> THEN 0
    ELSE Len(escape(Head(script).message)) + SumEscaped(Tail(script))

\* AzureSpeechProvider.podcast_script_to_ssml (azure_speech.py 133-167):
\* the result of the call and the instance after it
AzureSpeechProvider_podcast_script_to_ssml(self, podcast) ==
    LET voice(line) == IF line.speaker = "speaker_1" THEN self.voice_1
                       ELSE self.voice_2
    IN  IF ~HasKey(podcast.script, "speaker")
           \/ \E k \in 1..Len(podcast.script) :
                 voice(podcast.script[k]) \notin DOMAIN self.voices
        THEN [result |-> Raise(<<"KeyError">>), self |-> self]
        ELSE [result |->
                Return([language |-> podcast.config.language,
                        voices |-> [k \in 1..Len(podcast.script) |->
                           [name |-> self.voices[voice(podcast.script[k])],
                            text |-> escape(podcast.script[k].message)]]]),
              self |-> set_self_cost(self, 3000 * SumEscaped(podcast.script))]

\* AzureSpeechMultitalker.podcast_script_to_ssml
\* (azure_speech_multitalker.py 94-132): one voice wrapper, one turn per line
AzureSpeechMultitalker_podcast_script_to_ssml(self, podcast) ==
    IF ~HasKey(podcast.script, "speaker")
    THEN [result |-> Raise(<<"KeyError">>), self |-> self]
    ELSE [result |->
            Return([language |-> podcast.config.language,
                    wrapper |-> "en-US-MultiTalker-Ava-Andrew:DragonHDLatestNeural",
                    voices |-> [k \in 1..Len(podcast.script) |->
                       [name |-> IF podcast.script[k].speaker = "speaker_1"
                                 THEN "andrew" ELSE "ava",
                        text |-> escape(podcast.script[k].message)]]]),
          self |-> self]

\* BasicSpeechProvider.podcast_script_to_ssml (basic_speech.py 40-76)
BasicSpeechProvider_podcast_script_to_ssml(self, podcast) ==
    IF ~HasKey(podcast.script, "name")
       \/ \E k \in 1..Len(podcast.script) :
             podcast.script[k].name \notin DOMAIN self.voices
    THEN [result |-> Raise(<<"KeyError">>), self |-> self]
    ELSE [result |->
            Return([language |-> podcast.config.language,
                    voices |-> [k \in 1..Len(podcast.script) |->
                       [name |-> self.voices[podcast.script[k].name],
                        rate |-> self.rate, pitch |-> self.pitch,
                        text |-> escape(podcast.script[k].message)]]]),
          self |-> self]

\* results of speak_ssml: the reason, and the audio or the cancellation details
SpeechResults ==
    {[reason |-> "SynthesizingAudioCompleted", audio_data |-> "RIFF"],
     [reason |-> "SynthesizingAudioStarted", audio_data |-> ""]}
    \cup {[reason |-> "Canceled",
           cancellation_details |-> [reason |-> r, error_details |-> d]] :
             r \in {"Error", "EndOfStream"}, d \in {"", "quota exceeded"}}

\* variant of text_to_speech that only looks for a cancellation
text_to_speech_cancelonly(result) ==
    IF result.reason = "Canceled"
    THEN Raise(<<"Speech synthesis canceled: ",
                 result.cancellation_details.error_details>>)
    ELSE Return(result.audio_data)

\* utils.speech.text_to_speech from the result on (speech.py 30-37); an
\* f-string is the sequence of its parts
text_to_speech(result) ==
    IF result.reason = "Canceled"
    THEN Raise(<<"Speech synthesis canceled: ",
                 result.cancellation_details.error_details>>)
    ELSE IF result.reason # "SynthesizingAudioCompleted"
    THEN Raise(<<"Speech synthesis failed with reason: ", result.reason>>)
    ELSE Return(result.audio_data)

\* AzureSpeechProvider.text_to_speech from the result on (azure_speech.py
\* 114-131): SpeechResponse(audio, cost=self.cost)
AzureSpeechProvider_text_to_speech(self, result) ==
    IF result.reason = "SynthesizingAudioCompleted"
    THEN Return([audio |-> result.audio_data, cost |-> self_cost(self)])
    ELSE IF result.reason = "Canceled"
    THEN Raise(<<"Error details: ", result.cancellation_details.error_details>>)
    ELSE Raise(<<"Unknown exit reason: ", result.reason>>)

\* len(text_content): the characters of the lines of the markup that do not
\* start with "<".  No message of Texts holds a line break, so the markup is
\* one line that starts with "<speak" and no character is counted
CountedChars(ssml) == 0

\* AzureSpeechMultitalker.text_to_speech from the result on
\* (azure_speech_multitalker.py 66-92): the cost is counted on the markup
AzureSpeechMultitalker_text_to_speech(self, ssml, result) ==
    IF result.reason = "SynthesizingAudioCompleted"
    THEN Return([audio |-> result.audio_data,
                 cost |-> 3000 * CountedChars(ssml)])
    ELSE IF result.reason = "Canceled"
    THEN Raise(<<"Error details: ", result.cancellation_details.error_details>>)
    ELSE Raise(<<"Unknown exit reason: ", result.reason>>)

\* keyword arguments a speech provider is built with
SpeechKwargs == {<<>>, [voice_1 |-> "Emma", voice_2 |-> "Brian"]}

\* one call of a builder or of text_to_speech, as the last thing that happened
Called(op, input, result) == [op |-> op, input |-> input, result |-> result]

\* the markup the last call built, if it built one
BuiltBy(op) ==
    /\ prov.last # None
    /\ prov.last.op = op
    /\ prov.last.result.kind = "return"

\* utils.speech.podcast_script_to_ssml(podcast)
UtilsSsml ==
    /\ LET podcast == prov.podcast IN
          prov' = [prov EXCEPT !.last =
                      Called("utils.ssml", podcast,
                             utils_podcast_script_to_ssml(podcast))]
    /\ UNCHANGED <<gen_vars, app, runs>>

\* utils.speech.podcast_script_to_ssml_chunks(podcast)
UtilsSsmlChunks ==
    /\ LET podcast == prov.podcast IN
          prov' = [prov EXCEPT !.last =
                      Called("utils.chunks", podcast,
                             podcast_script_to_ssml_chunks(podcast))]
    /\ UNCHANGED <<gen_vars, app, runs>>

\* speech.podcast_script_to_ssml(podcast) on the AzureSpeechProvider instance
AzureSsml ==
    /\ LET podcast == prov.podcast IN
          LET c == AzureSpeechProvider_podcast_script_to_ssml(prov.speech, podcast)
          IN  prov' = [prov EXCEPT !.speech = c.self,
                          !.last = Called("azure.ssml", podcast, c.result)]
    /\ UNCHANGED <<gen_vars, app, runs>>

\* the same on the AzureSpeechMultitalker instance
MultitalkerSsml ==
    /\ LET podcast == prov.podcast IN
          LET c == AzureSpeechMultitalker_podcast_script_to_ssml(
                       prov.multitalker, podcast)
          IN  prov' = [prov EXCEPT !.multitalker = c.self,
                          !.last = Called("multitalker.ssml", podcast, c.result)]
    /\ UNCHANGED <<gen_vars, app, runs>>

\* the same on the BasicSpeechProvider instance
BasicSsml ==
    /\ LET podcast == prov.podcast IN
          LET c == BasicSpeechProvider_podcast_script_to_ssml(prov.basic, podcast)
          IN  prov' = [prov EXCEPT !.basic = c.self,
                          !.last = Called("basic.ssml", podcast, c.result)]
    /\ UNCHANGED <<gen_vars, app, runs>>

\* utils.speech.text_to_speech(ssml) on the markup just built (speech.py
\* 11-37); building the SpeechConfig can fail before any request
UtilsTts ==
    /\ BuiltBy("utils.ssml")
    /\ \/ \E result \in SpeechResults :
             prov' = [prov EXCEPT !.last =
                         Called("utils.tts", [ssml |-> prov.last.result.value,
                                              result |-> result],
                                text_to_speech(result))]
       \/ prov' = [prov EXCEPT !.last =
                      Called("utils.tts", [ssml |-> prov.last.result.value],
                             Raise(<<"KeyError">>))]
    /\ UNCHANGED <<gen_vars, app, runs>>

\* speech.text_to_speech(ssml) on the AzureSpeechProvider instance
\* (azure_speech.py 84-131)
AzureTts ==
    /\ BuiltBy("azure.ssml")
    /\ \/ \E result \in SpeechResults :
             prov' = [prov EXCEPT !.last =
                         Called("azure.tts", [ssml |-> prov.last.result.value,
                                              result |-> result],
                                AzureSpeechProvider_text_to_speech(
                                    prov.speech, result))]
       \/ prov' = [prov EXCEPT !.last =
                      Called("azure.tts", [ssml |-> prov.last.result.value],
                             Raise(<<"token error">>))]
    /\ UNCHANGED <<gen_vars, app, runs>>

\* the same on the AzureSpeechMultitalker instance
\* (azure_speech_multitalker.py 36-92)
MultitalkerTts ==
    /\ BuiltBy("multitalker.ssml")
    /\ \/ \E result \in SpeechResults :
             prov' = [prov EXCEPT !.last =
                         Called("multitalker.tts",
                                [ssml |-> prov.last.result.value,
                                 result |-> result],
                                AzureSpeechMultitalker_text_to_speech(
                                    prov.multitalker, prov.last.result.value,
                                    result))]
       \/ prov' = [prov EXCEPT !.last =
                      Called("multitalker.tts", [ssml |-> prov.last.result.value],
                             Raise(<<"token error">>))]
    /\ UNCHANGED <<gen_vars, app, runs>>

NextSpeech ==
    \/ UtilsSsml
    \/ UtilsSsmlChunks
    \/ AzureSsml
    \/ MultitalkerSsml
    \/ BasicSsml
    \/ UtilsTts
    \/ AzureTts
    \/ MultitalkerTts

\* a script and the three speech provider objects of a process, nothing
\* called yet
SpeechInit ==
    \E kwargs \in SpeechKwargs, podcast \in Podcasts :
        prov = [podcast |-> podcast,
                speech |-> AzureSpeechProvider_init(kwargs),
                multitalker |-> AzureSpeechMultitalker_init(kwargs),
                basic |-> BasicSpeechProvider_init(kwargs),
                last |-> None]

InitSpeech == GenInit /\ AppIdle /\ RunsIdle /\ SpeechInit

SpecSpeech == InitSpeech /\ [][NextSpeech]_vars

\* -------------------------------------------------- document conversion
\* DocumentProvider.supported_file_types (providers/document/base.py 23-29)
supported_file_types == {"pdf", "doc", "docx", "ppt", "pptx", "txt", "md"}

\* MarkItDownProvider.supported_file_types (markitdown.py 27-50)
MarkItDownProvider_supported_file_types ==
    {"pdf", "doc", "docx", "ppt", "pptx", "xls", "xlsx", "txt", "md", "html",
     "htm", "jpg", "jpeg", "png", "gif", "msg", "zip", "epub", "csv"}

\* os.environ of the process
Environ ==
    [DOCUMENTINTELLIGENCE_ENDPOINT |-> "https://di.example",
     AZURE_OPENAI_ENDPOINT |-> "https://aoai.example"]

\* AzureDocumentIntelligenceProvider.__init__
\* (azure_document_intelligence.py 67-74); os.environ.get of an unset name
\* is None
AzureDocumentIntelligenceProvider_init(kwargs) ==
    [class |-> "AzureDocumentIntelligenceProvider",
     endpoint |-> Get(kwargs, "endpoint",
                      Get(Environ, "DOCUMENTINTELLIGENCE_ENDPOINT", "None")),
     api_key |-> Get(kwargs, "api_key",
                     Get(Environ, "DOCUMENTINTELLIGENCE_API_KEY", "None"))]

\* MarkItDownProvider.__init__ (markitdown.py 15-19)
MarkItDownProvider_init(kwargs) ==
    [class |-> "MarkItDownProvider",
     docintel_endpoint |-> Get(kwargs, "docintel_endpoint", "None"),
     llm_client |-> Get(kwargs, "llm_client", "None"),
     llm_model |-> Get(kwargs, "llm_model", "None")]

\* files handed to a conversion; the last one is of no supported type
Files ==
    {[ext |-> "pdf", type |-> "application/pdf", bytes |-> <<37, 80>>],
     [ext |-> "md", type |-> "text/markdown", bytes |-> <<35, 195, 169>>],
     [ext |-> "exe", type |-> "application/x-msdownload", bytes |-> <<77, 90>>]}

\* what the layout analysis of the backend can answer for a request:
\* result.content and len(result.pages), or an error
AnalyzeOutcomes ==
    {Return([content |-> <<"#", "H", "i">>, pages |-> n]) : n \in 1..MaxPages}
    \cup {Raise(<<"HttpResponseError">>)}

\* variant of CacheHit for a cache that never answers
CacheHit_never(cache, key) == FALSE

\* st.cache_data keeps (key, value) pairs for the life of the process
CacheHit(cache, key) == \E e \in cache : e[1] = key

CacheValue(cache, key) == (CHOOSE e \in cache : e[1] = key)[2]

\* a call of a function under @st.cache_data: a hit returns the stored value
\* without running the body; a miss runs the body and stores what it returns
cache_data(cache, key, body) ==
    IF CacheHit(cache, key)
    THEN [result |-> Return(CacheValue(cache, key)), cache |-> cache,
          backend |-> FALSE]
    ELSE [result |-> body,
          cache |-> IF body.kind = "return"
                    THEN cache \cup {<<key, body.value>>} ELSE cache,
          backend |-> TRUE]

\* the body of utils.document.document_to_markdown (utils/document.py 26-49)
document_to_markdown(outcome) ==
    IF outcome.kind = "raise" THEN outcome
    ELSE Return([markdown |-> outcome.value.content,
                 pages |-> outcome.value.pages])

\* the body of _cached_document_to_markdown
\* (azure_document_intelligence.py 32-58), the cost in units of 10^-8 USD
cached_document_to_markdown(outcome) ==
    IF outcome.kind = "raise" THEN outcome
    ELSE Return([markdown |-> outcome.value.content,
                 pages |-> outcome.value.pages,
                 cost |-> outcome.value.pages * 1000000])

\* MDClient.convert_stream: a conversion done in the process, a function of
\* the bytes alone when no docintel_endpoint and no llm_client is configured
convert_stream(bytes) == [text_content |-> <<"converted", bytes>>]

\* MarkItDownProvider.document_to_markdown (markitdown.py 52-82)
MarkItDownProvider_document_to_markdown(self, file) ==
    Return([markdown |-> convert_stream(file).text_content,
            pages |-> 0,
            cost |-> 0])

\* one conversion call as the log keeps it
Conversion(op, file, key, c) ==
    [op |-> op, file |-> file, key |-> key, result |-> c.result,
     backend |-> c.backend]

\* utils.document.document_to_markdown(file): the cache key is the argument
UtilsDocumentToMarkdown ==
    /\ Len(prov.calls) < MaxConversions
    /\ \E file \in Files, outcome \in AnalyzeOutcomes :
          LET key == <<"document_to_markdown", file.bytes>>
              c == cache_data(prov.cache, key, document_to_markdown(outcome))
          IN  prov' = [prov EXCEPT !.cache = c.cache,
                          !.calls = Append(@, Conversion("utils", file, key, c))]
    /\ UNCHANGED <<gen_vars, app, runs>>

\* AzureDocumentIntelligenceProvider.document_to_markdown(file)
\* (azure_document_intelligence.py 76-89): the cache key is endpoint, file
\* and api_key
AzureDocumentToMarkdown ==
    /\ Len(prov.calls) < MaxConversions
    /\ \E file \in Files, outcome \in AnalyzeOutcomes :
          LET key == <<"_cached_document_to_markdown", prov.document.endpoint,
                       file.bytes, prov.document.api_key>>
              c == cache_data(prov.cache, key,
                              cached_document_to_markdown(outcome))
          IN  prov' = [prov EXCEPT !.cache = c.cache,
                          !.calls = Append(@, Conversion("azure", file, key, c))]
    /\ UNCHANGED <<gen_vars, app, runs>>

\* MarkItDownProvider.document_to_markdown(file): no cache, no remote call
MarkItDownDocumentToMarkdown ==
    /\ Len(prov.calls) < MaxConversions
    /\ \E file \in Files :
          LET key == <<"MarkItDownProvider", file.bytes>>
              c == [result |-> MarkItDownProvider_document_to_markdown(
                                   prov.markitdown, file.bytes),
                    backend |-> TRUE]
          IN  prov' = [prov EXCEPT
                          !.calls = Append(@, Conversion("markitdown", file, key, c))]
    /\ UNCHANGED <<gen_vars, app, runs>>

NextDocument ==
    \/ UtilsDocumentToMarkdown
    \/ AzureDocumentToMarkdown
    \/ MarkItDownDocumentToMarkdown

\* the document providers of a process, an empty cache, no call made yet
DocumentInit ==
    prov = [document |-> AzureDocumentIntelligenceProvider_init(<<>>),
            markitdown |-> MarkItDownProvider_init(<<>>),
            cache |-> {},
            calls |-> <<>>,
            last |-> None]

InitDocument == GenInit /\ AppIdle /\ RunsIdle /\ DocumentInit

SpecDocument == InitDocument /\ [][NextDocument]_vars

\* ----------------------------------------------------- create_providers
Kinds == {"document", "llm", "speech"}

\* AzureOpenAIProvider.__init__ (azure_openai.py 101-112)
AzureOpenAIProvider_init(kwargs) ==
    [class |-> "AzureOpenAIProvider",
     api_key |-> Get(kwargs, "api_key", Get(Environ, "AZURE_OPENAI_KEY", "None")),
     endpoint |-> Get(kwargs, "endpoint",
                      Get(Environ, "AZURE_OPENAI_ENDPOINT", "None")),
     model |-> Get(kwargs, "model",
                   Get(Environ, "AZURE_OPENAI_MODEL_DEPLOYMENT", "gpt-4o")),
     api_version |-> Get(kwargs, "api_version", "2024-10-21"),
     temperature |-> Get(kwargs, "temperature", 7),   \* tenths
     max_tokens |-> Get(kwargs, "max_tokens", 8000),
     speaker_1 |-> Get(kwargs, "speaker_1", "Andrew"),
     speaker_2 |-> Get(kwargs, "speaker_2", "Ava")]

\* cls(**config) for the provider classes of configurations.py 63-75
Construct(class, config) ==
    CASE class = "AzureDocumentIntelligenceProvider" ->
            AzureDocumentIntelligenceProvider_init(config)
      [] class = "MarkItDownProvider" -> MarkItDownProvider_init(config)
      [] class = "AzureOpenAIProvider" -> AzureOpenAIProvider_init(config)
      [] class = "AzureSpeechProvider" -> AzureSpeechProvider_init(config)
      [] class = "AzureSpeechMultitalker" -> AzureSpeechMultitalker_init(config)

\* variant of update in which a key the dict already has keeps its value
update_keepfirst(dict, other) ==
    [k \in DOMAIN dict \cup DOMAIN other |->
        IF k \in DOMAIN dict THEN dict[k] ELSE other[k]]

\* dict.update on a copy: the keys of both, the value of other where it has one
update(dict, other) ==
    [k \in DOMAIN dict \cup DOMAIN other |->
        IF k \in DOMAIN other THEN other[k] ELSE dict[k]]

\* variant of create_providers_args that goes on from the dict of the
\* provider before
create_providers_args_carried(self, default_options, kwargs) ==
    LET options == IF default_options = None THEN <<>> ELSE default_options
        doc_config == update(update(self.document_provider_config,
                                    Get(options, "document", <<>>)),
                             Get(kwargs, "document", <<>>))
        llm_config == update(update(update(doc_config, self.llm_provider_config),
                                    Get(options, "llm", <<>>)),
                             Get(kwargs, "llm", <<>>))
        speech_config == update(update(self.speech_provider_config,
                                       Get(options, "speech", <<>>)),
                                Get(kwargs, "speech", <<>>))
    IN  [document |-> doc_config, llm |-> llm_config, speech |-> speech_config]

\* the three merged dicts of Configuration.create_providers
\* (configurations.py 41-56): the stored config, then default_options[kind],
\* then kwargs[kind]
create_providers_args(self, default_options, kwargs) ==
    LET options == IF default_options = None THEN <<>> ELSE default_options
        doc_config == update(update(self.document_provider_config,
                                    Get(options, "document", <<>>)),
                             Get(kwargs, "document", <<>>))
        llm_config == update(update(self.llm_provider_config,
                                    Get(options, "llm", <<>>)),
                             Get(kwargs, "llm", <<>>))
        speech_config == update(update(self.speech_provider_config,
                                       Get(options, "speech", <<>>)),
                                Get(kwargs, "speech", <<>>))
    IN  [document |-> doc_config, llm |-> llm_config, speech |-> speech_config]

\* Configuration.create_providers (configurations.py 28-59)
create_providers(self, default_options, kwargs) ==
    LET args == create_providers_args(self, default_options, kwargs)
    IN  [document |-> Construct(self.document_provider, args.document),
         llm |-> Construct(self.llm_provider, args.llm),
         speech |-> Construct(self.speech_provider, args.speech)]

\* the merged dicts of Profile.create_providers (profiles.py 47-60): the
\* stored config, then kwargs[kind]
Profile_create_providers_args(self, kwargs) ==
    [document |-> update(self.document_provider_config,
                         Get(kwargs, "document", <<>>)),
     llm |-> update(self.llm_provider_config, Get(kwargs, "llm", <<>>)),
     speech |-> update(self.speech_provider_config, Get(kwargs, "speech", <<>>))]

\* Profile.create_providers (profiles.py 36-62)
Profile_create_providers(self, kwargs) ==
    LET args == Profile_create_providers_args(self, kwargs)
    IN  [document |-> Construct(self.document_provider, args.document),
         llm |-> Construct(self.llm_provider, args.llm),
         speech |-> Construct(self.speech_provider, args.speech)]

\* the option dicts a layer can hold for a kind; "colour" is a key no
\* provider knows
StoredOptions(kind) ==
    CASE kind = "document" ->
            {<<>>, [endpoint |-> "https://stored", api_key |-> "stored-key"]}
      [] kind = "llm" -> {<<>>, [model |-> "stored-model", temperature |-> 1]}
      [] kind = "speech" -> {<<>>, [voice_1 |-> "Brian", voice_2 |-> "Davis"]}

DefaultOptions(kind) ==
    CASE kind = "document" ->
            {[endpoint |-> "https://default"], [api_key |-> "default-key"]}
      [] kind = "llm" ->
            {[model |-> "default-model"], [speaker_1 |-> "Dana"]}
      [] kind = "speech" -> {[voice_1 |-> "Emma"], [voice_2 |-> "Jenny"]}

AdvancedOptions(kind) ==
    CASE kind = "document" ->
            {[endpoint |-> "https://advanced", colour |-> "red"]}
      [] kind = "llm" ->
            {[model |-> "advanced-model", speaker_1 |-> "Kim"],
             [temperature |-> 2]}
      [] kind = "speech" -> {[voice_1 |-> "Nova"], [voice_2 |-> "Aria"]}

\* dicts organized by kind that hold an entry for each kind of ks
ByKind(ks, options(_)) ==
    {f \in [ks -> UNION {options(k) : k \in ks}] : \A k \in ks : f[k] \in options(k)}

\* dicts organized by kind, a kind having an entry or not
OptionDicts(options(_)) == UNION {ByKind(ks, options) : ks \in SUBSET Kinds}

\* the provider classes of the two profiles (profiles.py 65-79) with a
\* stored config for each kind
Configurations ==
    {[document_provider |-> "AzureDocumentIntelligenceProvider",
      llm_provider |-> "AzureOpenAIProvider",
      speech_provider |-> sp,
      document_provider_config |-> d,
      llm_provider_config |-> l,
      speech_provider_config |-> s] :
        sp \in {"AzureSpeechProvider", "AzureSpeechMultitalker"},
        d \in StoredOptions("document"),
        l \in StoredOptions("llm"),
        s \in StoredOptions("speech")}

\* config.create_providers(default_options, **kwargs)
ConfigurationCreateProviders ==
    /\ prov.providers = None
    /\ prov' = [prov EXCEPT
                   !.called = "Configuration",
                   !.args = create_providers_args(prov.self, prov.default_options,
                                                  prov.kwargs),
                   !.providers = create_providers(prov.self, prov.default_options,
                                                  prov.kwargs)]
    /\ UNCHANGED <<gen_vars, app, runs>>

\* profile.create_providers(**kwargs)
ProfileCreateProviders ==
    /\ prov.providers = None
    /\ prov' = [prov EXCEPT
                   !.called = "Profile",
                   !.args = Profile_create_providers_args(prov.self, prov.kwargs),
                   !.providers = Profile_create_providers(prov.self, prov.kwargs)]
    /\ UNCHANGED <<gen_vars, app, runs>>

NextConfig ==
    \/ ConfigurationCreateProviders
    \/ ProfileCreateProviders

\* a configuration and the options of the UI, nothing created yet
ConfigInit ==
    \E self \in Configurations,
       default_options \in {None} \cup OptionDicts(DefaultOptions),
       kwargs \in OptionDicts(AdvancedOptions) :
        prov = [self |-> self,
                default_options |-> default_options,
                kwargs |-> kwargs,
                called |-> "",
                args |-> None,
                providers |-> None,
                last |-> None]

InitConfig == GenInit /\ AppIdle /\ RunsIdle /\ ConfigInit

SpecConfig == InitConfig /\ [][NextConfig]_vars

\* ------------------------------------------------- two runs side by side
\* Python lists and dicts are objects on a heap; a name holds the address of
\* its object.  The heap is the sequence of the objects created so far.
RunIds == {1, 2}

\* variant of NewList for lists that are created once and then shared
NewList_shared(heap, n) == n

\* the address of the n-th object a run creates when it starts: a list or
\* dict display creates a new object each time it is evaluated
NewList(heap, n) == Len(heap) + n

\* the heap after the object at address a was created with the content
\* initial, unless that address holds an object already
Created(heap, a, initial) ==
    IF a > Len(heap) THEN Append(heap, initial) ELSE heap

\* list.append(entry) on the object at address a
Appended(heap, a, entry) == [heap EXCEPT ![a] = Append(@, entry)]

\* what the backend reports for a call of run r
RunUsage(r) == [prompt_tokens |-> 10 * r, completion_tokens |-> 3 * r]

\* the script run r ends with, in the layout of the speech provider
RunPodcast(r) ==
    [config |-> [language |-> DefaultLanguage],
     script |-> [k \in 1..r |-> [speaker |-> "speaker_1", message |-> <<"H", "i">>]]]

\* llm.py 496-529: the locals of a call of document_to_podcast_script
RunStart(r) ==
    /\ runs.run[r].pc = "new"
    /\ LET m == NewList(runs.heap, 1)
           g == NewList(runs.heap, 2)
           s == NewList(runs.heap, 3)
           h1 == Created(runs.heap, m,
                         <<[role |-> "system", run |-> r],
                           [role |-> "user", run |-> r]>>)
           h2 == Created(h1, g, <<>>)
           h3 == Created(h2, s, <<>>)
       IN  runs' = [runs EXCEPT
                       !.heap = h3,
                       !.run[r] = [pc |-> "running", messages |-> m,
                                   generation_steps |-> g, sections |-> s,
                                   total_prompt_tokens |-> 0,
                                   total_completion_tokens |-> 0,
                                   calls |-> 0],
                       !.trace = Append(@, r)]
    /\ UNCHANGED <<gen_vars, app, prov>>

\* one accepted backend call of run r and what the stage does with it: the
\* assistant message, the tool call and its answer, the step record, the
\* usage, the section
RunCall(r) ==
    /\ runs.run[r].pc = "running"
    /\ runs.run[r].calls < MaxRunCalls
    /\ LET n == runs.run[r].calls + 1
           h0 == Appended(runs.heap, runs.run[r].messages,
                          [role |-> "assistant", run |-> r, call |-> n])
           h1 == Appended(h0, runs.run[r].messages,
                          [role |-> "assistant", tool_calls |-> n, run |-> r,
                           call |-> n])
           h2 == Appended(h1, runs.run[r].messages,
                          [role |-> "tool", tool_call_id |-> n, run |-> r,
                           call |-> n])
           h3 == Appended(h2, runs.run[r].generation_steps,
                          [step |-> "Step", run |-> r, call |-> n])
           h4 == Appended(h3, runs.run[r].sections,
                          [section_title |-> "Section", dialogue |-> Dialogue,
                           run |-> r, call |-> n])
       IN  runs' = [runs EXCEPT
                       !.heap = h4,
                       !.run[r].calls = n,
                       !.run[r].total_prompt_tokens =
                            @ + RunUsage(r).prompt_tokens,
                       !.run[r].total_completion_tokens =
                            @ + RunUsage(r).completion_tokens,
                       !.trace = Append(@, r)]
    /\ UNCHANGED <<gen_vars, app, prov>>

\* llm.py 1074-1086: the run returns its response
RunReturn(r) ==
    /\ runs.run[r].pc = "running"
    /\ runs' = [runs EXCEPT !.run[r].pc = "returned", !.trace = Append(@, r)]
    /\ UNCHANGED <<gen_vars, app, prov>>

\* the speech provider instance of run r builds the markup of its script
\* and sets its cost (azure_speech.py 133-167)
RunSsml(r) ==
    /\ runs.run[r].pc = "returned"
    /\ runs' = [runs EXCEPT
                   !.speech[r] = AzureSpeechProvider_podcast_script_to_ssml(
                                     @, RunPodcast(r)).self,
                   !.run[r].pc = "done",
                   !.trace = Append(@, r)]
    /\ UNCHANGED <<gen_vars, app, prov>>

NextRuns ==
    \/ \E r \in RunIds : RunStart(r)
    \/ \E r \in RunIds : RunCall(r)
    \/ \E r \in RunIds : RunReturn(r)
    \/ \E r \in RunIds : RunSsml(r)

\* an empty heap, two runs not started, a speech provider instance for each
RunsInit ==
    runs = [heap |-> <<>>,
            run |-> [r \in RunIds |-> [pc |-> "new"]],
            speech |-> [r \in RunIds |-> AzureSpeechProvider_init(<<>>)],
            trace |-> <<>>]

InitRuns == GenInit /\ AppIdle /\ ProvIdle /\ RunsInit

SpecRuns == InitRuns /\ [][NextRuns]_vars

\* --------------------- execute_react_step_with_retry as a unit (SpecExec)
\* initial_retry_delay (1.0 second), in tenths of a second
initial_retry_delay == 10

\* values of random.uniform(0.8, 1.2), in tenths: both ends and the middle
Jitters == {8, 10, 12}

\* transcripts a call is made with
ExecMessages == {<<SystemMsg, UserMsg>>, <<SystemMsg, UserMsg, AssistantMsg>>}

\* what the backend can do on one attempt, whatever function schema is passed
ExecOutcomes(msgs) ==
    UNION {Outcomes(stage, 5, "Intro", msgs) : stage \in 1..6}

\* sleep_time = retry_delay * jitter, in hundredths of a second
sleep_time(rc, jitter) == initial_retry_delay * Pow2(rc) * jitter

\* one iteration of the while loop (llm.py 399-448), the time slept recorded
ExecuteAttempt ==
    /\ pc = "execute"
    /\ \E o \in ExecOutcomes(messages) :
          LET r == ExecResult(o, retry_count) IN
          \/ /\ r = "sleep"
             /\ retry_count' = retry_count + 1
             /\ \E jitter \in Jitters :
                   sleeps' = Append(sleeps, sleep_time(retry_count, jitter))
             /\ UNCHANGED <<pc, last_exec>>
          \/ /\ r \in {"return", "raise"}
             /\ ExecEnd(o)
             /\ pc' = "executed"
    /\ UNCHANGED <<duration, messages, generation_steps, tokens, podcast_structure,
                   sections, final_script, sec_i, section_title,
                   section_retry_count, response, step_kinds, accepted_prompt,
                   accepted_completion, attempted, fell_back, irregular,
                   return_path, section_calls, app, prov, runs>>

\* the caller makes its next call (llm.py 395-397: fresh locals)
ExecuteCall ==
    /\ pc = "executed"
    /\ pc' = "execute"
    /\ messages' \in ExecMessages
    /\ retry_count' = 0
    /\ sleeps' = <<>>
    /\ UNCHANGED <<duration, generation_steps, tokens, podcast_structure,
                   sections, final_script, sec_i, section_title,
                   section_retry_count, response, step_kinds, accepted_prompt,
                   accepted_completion, attempted, fell_back, irregular,
                   return_path, section_calls, last_exec, app, prov, runs>>

NextExec ==
    \/ ExecuteAttempt
    \/ ExecuteCall

ExecInit ==
    /\ pc = "execute"
    /\ duration \in Durations
    /\ messages \in ExecMessages
    /\ generation_steps = <<>>
    /\ total_prompt_tokens = 0
    /\ total_completion_tokens = 0
    /\ podcast_structure = EmptyDict
    /\ sections = <<>>
    /\ final_script = None
    /\ sec_i = 1
    /\ section_title = ""
    /\ section_retry_count = 0
    /\ retry_count = 0
    /\ response = NoResponse
    /\ step_kinds = <<>>
    /\ accepted_prompt = 0
    /\ accepted_completion = 0
    /\ attempted = {}
    /\ fell_back = {}
    /\ irregular = 0
    /\ return_path = "none"
    /\ section_calls = 0
    /\ sleeps = <<>>
    /\ last_exec = [result |-> "none"]

InitExec == ExecInit /\ AppIdle /\ ProvIdle /\ RunsIdle

SpecExec == InitExec /\ [][NextExec]_vars

\* ------- the generator on a backend that never calls the section tool
\* (SpecLoop): stages 1, 2, 3, 5, 6 as in Spec, every section-generation call
\* answered by a response without tool call
\* the test of the while loop of a section (llm.py 819): the retry count is
\* within max_retries and the section is not generated, so the body runs
Step4While ==
    /\ pc = "step4"
    /\ section_retry_count <= max_retries
    /\ pc' = "step4_call"
    /\ UNCHANGED <<duration, messages, generation_steps, tokens, podcast_structure,
                   sections, final_script, sec_i, section_title,
                   section_retry_count, retry_count, response, step_kinds,
                   accepted_prompt, accepted_completion, attempted, fell_back,
                   irregular, return_path, section_calls, sleeps, last_exec,
                   app, prov, runs>>

\* the body of the while loop (llm.py 820-866) on a response without tool
\* call: the assistant text is appended, the usage added, and neither
\* section_generated nor the retry count changes; back to the test.  Passes
\* after the first MaxLoop ones repeat this and are not told apart
Step4NoToolCall ==
    /\ pc = "step4_call"
    /\ pc' = "step4"
    /\ LET o == [kind |-> "response", function_call |-> None,
                 usage |-> UsageOf(messages, None)]
       IN  /\ ExecResult(o, retry_count) = "return"
           /\ ExecEnd(o)
           /\ attempted' = attempted \cup {4}
           /\ IF section_calls < MaxLoop
              THEN /\ messages' = Append(messages, AssistantMsg)
                   /\ AddUsage(o)
                   /\ accepted_prompt' = accepted_prompt + o.usage.prompt_tokens
                   /\ accepted_completion' =
                         accepted_completion + o.usage.completion_tokens
                   /\ section_calls' = section_calls + 1
              ELSE UNCHANGED <<messages, tokens, accepted_prompt,
                               accepted_completion, section_calls>>
    /\ UNCHANGED <<duration, generation_steps, podcast_structure, sections,
                   final_script, sec_i, section_title, section_retry_count,
                   response, step_kinds, fell_back, irregular, return_path,
                   app, prov, runs>>

NextLoop ==
    \/ Setup
    \/ Step1
    \/ Step2
    \/ Step3
    \/ Step4Head
    \/ Step4While
    \/ Step4NoToolCall
    \/ Step5
    \/ Step6

\* the interpreter runs the one thread of the call to its end: a step that
\* can be taken is taken
SpecLoop == Init /\ [][NextLoop]_vars /\ WF_vars(NextLoop)

\* ------------------------------- synthesis in chunks (speech.py 57-119)
\* turns of the longest script: 120 turns make three chunks
MaxScript == 120

RECURSIVE Digits(_)
\* the decimal digits of k, one character each
Digits(k) ==
    IF k < 10 THEN <<ToString(k)>>
    ELSE Append(Digits(k \div 10), ToString(k % 10))

\* a script of n turns in the generator's layout, every turn with a message
\* of its own; "Narrator" has no entry in the voice table
ChunkScript(n) ==
    [k \in 1..n |->
        [name |-> CASE k % 3 = 1 -> "Andrew" [] k % 3 = 2 -> "Emma"
                    [] OTHER -> "Narrator",
         message |-> Digits(k)]]

ChunkPodcasts ==
    {[config |-> [language |-> DefaultLanguage], script |-> ChunkScript(n)] :
        n \in 0..MaxScript}

\* the first bytes of a WAV file: "RIFF"
RIFF == <<82, 73, 70, 70>>

\* AudioSegment.from_wav(io.BytesIO(audio_data)) (speech.py 104): the
\* samples behind the header
from_wav(audio_data) ==
    IF Len(audio_data) >= Len(RIFF) /\ SubSeq(audio_data, 1, Len(RIFF)) = RIFF
    THEN Return([samples |-> SubSeq(audio_data, Len(RIFF) + 1, Len(audio_data))])
    ELSE Raise(<<"CouldntDecodeError">>)

RECURSIVE concatenate(_)
\* final_audio = segments[0]; final_audio += seg for the others (speech.py
\* 108-113), on a list that is not empty
concatenate(segments) ==
    IF Len(segments) = 1 THEN segments[1]
    ELSE [samples |-> concatenate(SubSeq(segments, 1, Len(segments) - 1)).samples
                         \o segments[Len(segments)].samples]

\* final_audio.export(out_buffer, format="wav") and the read (speech.py
\* 116-119)
export(segment) == RIFF \o segment.samples

\* what speak_ssml gives for the request number j of a call: audio that
\* differs from request to request, or one of the failures of SpeechResults
ChunkResults(j) ==
    {[reason |-> "SynthesizingAudioCompleted", audio_data |-> RIFF \o <<j>>]}
    \cup {r \in SpeechResults : r.reason # "SynthesizingAudioCompleted"}

\* synthesize_in_chunks not called yet
SynthIdle ==
    [pc |-> "idle", ssml_chunks |-> <<>>, segments |-> <<>>, requests |-> <<>>,
     result |-> None]

\* synthesize_in_chunks(podcast), line 97: the chunks are built first
SynthesizeStart ==
    /\ prov.synth.pc = "idle"
    /\ LET c == podcast_script_to_ssml_chunks(prov.podcast) IN
          prov' = [prov EXCEPT !.synth =
                      IF c.kind = "raise"
                      THEN [@ EXCEPT !.pc = "done", !.result = c]
                      ELSE [@ EXCEPT !.pc = "loop", !.ssml_chunks = c.value]]
    /\ UNCHANGED <<gen_vars, app, runs>>

\* one pass of the loop of lines 101-105: text_to_speech(chunk) sends the
\* chunk in one request, unless the SpeechConfig cannot be built, and the
\* audio becomes a segment; an exception leaves the function
SynthesizeChunk ==
    /\ prov.synth.pc = "loop"
    /\ Len(prov.synth.segments) < Len(prov.synth.ssml_chunks)
    /\ LET chunk == prov.synth.ssml_chunks[Len(prov.synth.segments) + 1] IN
          \/ \E result \in ChunkResults(Len(prov.synth.requests) + 1) :
                LET audio_data == text_to_speech(result)
                    segment == from_wav(audio_data.value)
                IN  prov' = [prov EXCEPT !.synth =
                        IF audio_data.kind = "raise"
                        THEN [@ EXCEPT !.pc = "done", !.result = audio_data,
                                       !.requests = Append(@, chunk)]
                        ELSE IF segment.kind = "raise"
                        THEN [@ EXCEPT !.pc = "done", !.result = segment,
                                       !.requests = Append(@, chunk)]
                        ELSE [@ EXCEPT !.segments = Append(@, segment.value),
                                       !.requests = Append(@, chunk)]]
          \/ prov' = [prov EXCEPT !.synth =
                         [@ EXCEPT !.pc = "done",
                                   !.result = Raise(<<"KeyError">>)]]
    /\ UNCHANGED <<gen_vars, app, runs>>

\* after the loop (lines 107-119): segments[0] of an empty list is an
\* IndexError; else the segments are joined and exported
SynthesizeFinish ==
    /\ prov.synth.pc = "loop"
    /\ Len(prov.synth.segments) = Len(prov.synth.ssml_chunks)
    /\ prov' = [prov EXCEPT !.synth =
                   [@ EXCEPT !.pc = "done",
                             !.result =
                                IF prov.synth.segments = <<>>
                                THEN Raise(<<"IndexError">>)
                                ELSE Return(export(
                                        concatenate(prov.synth.segments)))]]
    /\ UNCHANGED <<gen_vars, app, runs>>

NextChunks ==
    \/ UtilsSsml
    \/ UtilsSsmlChunks
    \/ SynthesizeStart
    \/ SynthesizeChunk
    \/ SynthesizeFinish

\* a script of 0 to MaxScript turns, nothing called yet
ChunksInit ==
    \E podcast \in ChunkPodcasts :
        prov = [podcast |-> podcast, last |-> None, synth |-> SynthIdle]

InitChunks == GenInit /\ AppIdle /\ RunsIdle /\ ChunksInit

SpecChunks == InitChunks /\ [][NextChunks]_vars

\* ----------------------------- the message escaping of the providers alone
\* characters of the longest message
MaxMessage == 4

\* the five special characters and the letters of an entity, so that a
\* message can itself read like an entity
EscapeAlphabet == {"&", "<", ">", "\"", "'", "l", "t", ";"}

\* every message of at most MaxMessage characters
Messages == UNION {[1..n -> EscapeAlphabet] : n \in 0..MaxMessage}

\* the escaping statement of AzureSpeechProvider.podcast_script_to_ssml
\* (azure_speech.py 147-156) on one message
AzureEscape ==
    /\ prov' = [prov EXCEPT !.last =
                   Called("azure.escape", prov.message, escape(prov.message))]
    /\ UNCHANGED <<gen_vars, app, runs>>

\* the same statement of BasicSpeechProvider.podcast_script_to_ssml
\* (basic_speech.py 54-63)
BasicEscape ==
    /\ prov' = [prov EXCEPT !.last =
                   Called("basic.escape", prov.message, escape(prov.message))]
    /\ UNCHANGED <<gen_vars, app, runs>>

NextEscape ==
    \/ AzureEscape
    \/ BasicEscape

\* one message of a script line, not escaped yet
EscapeInit == \E message \in Messages : prov = [message |-> message, last |-> None]

InitEscape == GenInit /\ AppIdle /\ RunsIdle /\ EscapeInit

SpecEscape == InitEscape /\ [][NextEscape]_vars

\* ------------------- one AzureSpeechProvider instance used for many scripts
\* markups one instance builds in a behaviour
MaxBuilt == 2

\* scripts in the providers' layout, of no line or one line
CostPodcasts ==
    {[config |-> [language |-> DefaultLanguage], script |-> s] :
        s \in {<<>>} \cup
              {<<[speaker |-> "speaker_1", message |-> t]>> : t \in Texts}}

\* speech.podcast_script_to_ssml(podcast) for any script (azure_speech.py
\* 133-167): the markup is kept by the caller, self.cost is set
ProviderSsml ==
    /\ Len(prov.built) < MaxBuilt
    /\ \E podcast \in CostPodcasts :
          LET c == AzureSpeechProvider_podcast_script_to_ssml(prov.speech, podcast)
          IN  prov' = [prov EXCEPT
                          !.speech = c.self,
                          !.built = IF c.result.kind = "return"
                                    THEN Append(@, [podcast |-> podcast,
                                                    ssml |-> c.result.value])
                                    ELSE @,
                          !.last = Called("azure.ssml", podcast, c.result)]
    /\ UNCHANGED <<gen_vars, app, runs>>

\* speech.text_to_speech(ssml) on any markup the instance built before
\* (azure_speech.py 84-131)
ProviderTts ==
    /\ \E b \in DOMAIN prov.built, result \in SpeechResults :
          prov' = [prov EXCEPT !.last =
                      Called("azure.tts",
                             [built |-> b, ssml |-> prov.built[b].ssml],
                             AzureSpeechProvider_text_to_speech(
                                prov.speech, result))]
    /\ UNCHANGED <<gen_vars, app, runs>>

NextCost ==
    \/ ProviderSsml
    \/ ProviderTts

\* a fresh instance, nothing built
CostInit ==
    \E kwargs \in SpeechKwargs :
        prov = [speech |-> AzureSpeechProvider_init(kwargs),
                built |-> <<>>,
                last |-> None]

InitCost == GenInit /\ AppIdle /\ RunsIdle /\ CostInit

SpecCost == InitCost /\ [][NextCost]_vars

\* ------------- create_providers on dict objects (copy and update in place)
\* create_providers calls on one object in a behaviour
MaxCreations == 2

\* variant of dict_copy that hands out the stored dict itself
dict_copy_alias(heap, ref) == [heap |-> heap, ref |-> ref]

\* dict.copy(): a new dict object with the same entries; the heap is the
\* sequence of the dict objects, a reference is an index into it
dict_copy(heap, ref) ==
    [heap |-> Append(heap, heap[ref]), ref |-> Len(heap) + 1]

\* dict.update(other) on the object behind ref, in place
dict_update(heap, ref, other) ==
    [heap EXCEPT ![ref] = update(@, other)]

\* config = stored.copy(); config.update(layer) for every layer in turn
\* (configurations.py 44-46, profiles.py 50-51)
merged_config(heap, stored, layers) ==
    LET c == dict_copy(heap, stored)
        RECURSIVE updated(_, _)
        updated(h, k) ==
            IF k > Len(layers) THEN h
            ELSE updated(dict_update(h, c.ref, layers[k]), k + 1)
    IN  [heap |-> updated(c.heap, 1), ref |-> c.ref]

\* the body shared by both create_providers: for each kind the merged dict
\* and cls(**config), which reads the merged dict
create_providers_on(heap, self, layers) ==
    LET doc_config == merged_config(heap, self.document_provider_config,
                                    layers.document)
        llm_config == merged_config(doc_config.heap, self.llm_provider_config,
                                    layers.llm)
        speech_config == merged_config(llm_config.heap,
                                       self.speech_provider_config, layers.speech)
    IN  [heap |-> speech_config.heap,
         providers |->
            [document |-> Construct(self.document_provider,
                                    speech_config.heap[doc_config.ref]),
             llm |-> Construct(self.llm_provider,
                               speech_config.heap[llm_config.ref]),
             speech |-> Construct(self.speech_provider,
                                  speech_config.heap[speech_config.ref])]]

\* the layers of Configuration.create_providers: default_options[kind], then
\* kwargs[kind] (configurations.py 41-56)
Configuration_layers(default_options, kwargs) ==
    LET options == IF default_options = None THEN <<>> ELSE default_options
    IN  [kind \in Kinds |->
            <<Get(options, kind, <<>>), Get(kwargs, kind, <<>>)>>]

\* the layers of Profile.create_providers: kwargs[kind] (profiles.py 49-60)
Profile_layers(kwargs) == [kind \in Kinds |-> <<Get(kwargs, kind, <<>>)>>]

\* option dicts of the UI for the calls on one object
FrameDefaultOptions ==
    {None,
     [speech |-> [voice_1 |-> "Emma"]],
     [document |-> [endpoint |-> "https://default"],
      llm |-> [model |-> "default-model"],
      speech |-> [voice_2 |-> "Jenny"]]}

FrameKwargs ==
    {<<>>,
     [speech |-> [voice_1 |-> "Nova"]],
     [document |-> [endpoint |-> "https://advanced", colour |-> "red"],
      llm |-> [temperature |-> 2]]}

\* the object with its three stored dicts as references into the heap
FrameSelf(configuration) ==
    [configuration EXCEPT !.document_provider_config = 1,
                          !.llm_provider_config = 2,
                          !.speech_provider_config = 3]

\* config.create_providers(default_options, **kwargs) on the object
FrameConfigurationCreate ==
    /\ prov.creations < MaxCreations
    /\ \E default_options \in FrameDefaultOptions, kwargs \in FrameKwargs :
          LET c == create_providers_on(prov.heap, prov.self,
                      Configuration_layers(default_options, kwargs))
          IN  prov' = [prov EXCEPT
                          !.heap = c.heap,
                          !.creations = @ + 1,
                          !.last = Called("Configuration",
                                          [default_options |-> default_options,
                                           kwargs |-> kwargs],
                                          c.providers)]
    /\ UNCHANGED <<gen_vars, app, runs>>

\* profile.create_providers(**kwargs) on the object
FrameProfileCreate ==
    /\ prov.creations < MaxCreations
    /\ \E kwargs \in FrameKwargs :
          LET c == create_providers_on(prov.heap, prov.self, Profile_layers(kwargs))
          IN  prov' = [prov EXCEPT
                          !.heap = c.heap,
                          !.creations = @ + 1,
                          !.last = Called("Profile", [kwargs |-> kwargs],
                                          c.providers)]
    /\ UNCHANGED <<gen_vars, app, runs>>

NextFrame ==
    \/ FrameConfigurationCreate
    \/ FrameProfileCreate

\* an object with its stored dicts; constructed keeps what the dataclass was
\* built with
FrameInit ==
    \E configuration \in Configurations :
        prov = [constructed |-> configuration,
                self |-> FrameSelf(configuration),
                heap |-> <<configuration.document_provider_config,
                           configuration.llm_provider_config,
                           configuration.speech_provider_config>>,
                creations |-> 0,
                last |-> None]

InitFrame == GenInit /\ AppIdle /\ RunsIdle /\ FrameInit

SpecFrame == InitFrame /\ [][NextFrame]_vars

\* ------------------------------------- the tenant check of app.py 26-35
\* tenant ids, and the values of ENTRA_AUTHORIZED_TENANTS, as characters
TenantIds == {<<"a">>, <<"b">>, <<"c">>}

\* os.environ of the process: the variable unset, empty, or a list
AccessEnvirons ==
    {<<>>,
     [ENTRA_AUTHORIZED_TENANTS |-> <<>>],
     [ENTRA_AUTHORIZED_TENANTS |-> <<"a">>],
     [ENTRA_AUTHORIZED_TENANTS |-> <<"a", ",", "b">>]}

RECURSIVE split(_, _)
\* str.split(sep) for a one-character sep
split(text, sep) ==
    IF \A i \in 1..Len(text) : text[i] # sep THEN <<text>>
    ELSE LET i == CHOOSE j \in 1..Len(text) :
                     text[j] = sep /\ \A k \in 1..(j - 1) : text[k] # sep
         IN  <<SubSeq(text, 1, i - 1)>>
                \o split(SubSeq(text, i + 1, Len(text)), sep)

tenantid == "http://schemas.microsoft.com/identity/claims/tenantid"

\* the claims lists a client principal can carry
ClaimLists ==
    {<<>>, <<[typ |-> "name", val |-> <<"a">>]>>}
    \cup {<<[typ |-> tenantid, val |-> t]>> : t \in TenantIds}
    \cup {<<[typ |-> "name", val |-> <<"c">>], [typ |-> tenantid, val |-> t]>> :
             t \in TenantIds}
    \cup {<<[typ |-> tenantid, val |-> <<"c">>], [typ |-> tenantid, val |-> <<"a">>]>>,
          <<[typ |-> tenantid]>>}

\* what the X-Ms-Client-Principal header can hold: base64 of a JSON document
\* with or without claims, base64 of something else, text with a wrong
\* padding, or nothing
PrincipalValues ==
    {[text |-> "empty"], [text |-> "padding"],
     [text |-> "base64", bytes |-> "binary"],
     [text |-> "base64", bytes |-> "utf-8", json |-> FALSE],
     [text |-> "base64", bytes |-> "utf-8", json |-> TRUE,
      value |-> [auth_typ |-> "aad"]]}
    \cup {[text |-> "base64", bytes |-> "utf-8", json |-> TRUE,
           value |-> [auth_typ |-> "aad", claims |-> cs]] : cs \in ClaimLists}

\* the headers of a request: with or without X-Ms-Client-Principal
RequestHeaders ==
    {<<>>} \cup {[X_Ms_Client_Principal |-> v] : v \in PrincipalValues}

\* utils.identity.check_claim_for_tenant (identity.py 51-66)
check_claim_for_tenant(client_principal, authorized_tenants) ==
    IF client_principal.text = "padding" THEN Raise(<<"binascii.Error">>)
    ELSE IF client_principal.text = "empty" THEN Raise(<<"JSONDecodeError">>)
    ELSE IF client_principal.bytes # "utf-8" THEN Raise(<<"UnicodeDecodeError">>)
    ELSE IF ~client_principal.json THEN Raise(<<"JSONDecodeError">>)
    ELSE IF "claims" \notin DOMAIN client_principal.value
    THEN Raise(<<"KeyError">>)
    ELSE LET claims == client_principal.value.claims
             first == CHOOSE k \in 1..(Len(claims) + 1) :
                         /\ k <= Len(claims) => claims[k].typ = tenantid
                         /\ \A j \in 1..(k - 1) : claims[j].typ # tenantid
         IN  IF first <= Len(claims) /\ "val" \notin DOMAIN claims[first]
             THEN Raise(<<"KeyError">>)
             ELSE \* tenant_id is None when no claim has the type, and
                  \* None is in no list of strings
                  Return(/\ first <= Len(claims)
                         /\ \E k \in 1..Len(authorized_tenants) :
                               authorized_tenants[k] = claims[first].val)

\* app.py 26-35 for one request: the check runs only when the variable and
\* the header are both there and not empty; an exception ends the script
AccessCheck ==
    /\ app.pc = "request"
    /\ LET getenv == /\ "ENTRA_AUTHORIZED_TENANTS" \in DOMAIN app.environ
                     /\ app.environ.ENTRA_AUTHORIZED_TENANTS # <<>>
           get == /\ "X_Ms_Client_Principal" \in DOMAIN app.headers
                  /\ app.headers.X_Ms_Client_Principal.text # "empty"
       IN  IF getenv /\ get
           THEN LET access == check_claim_for_tenant(
                                 app.headers.X_Ms_Client_Principal,
                                 split(app.environ.ENTRA_AUTHORIZED_TENANTS, ","))
                IN  app' = [app EXCEPT
                       !.checked = TRUE,
                       !.pc = IF access.kind = "raise" THEN "exception"
                              ELSE IF access.value # TRUE THEN "stopped"
                              ELSE "page",
                       !.error = IF access.kind = "raise" THEN access.error
                                 ELSE IF access.value # TRUE
                                 THEN <<"Access denied.">>
                                 ELSE <<>>]
           ELSE app' = [app EXCEPT !.pc = "page"]
    /\ UNCHANGED <<gen_vars, prov, runs>>

\* app.py 38-169: the page with the upload form is built
AccessForm ==
    /\ app.pc = "page"
    /\ app' = [app EXCEPT !.pc = "form"]
    /\ UNCHANGED <<gen_vars, prov, runs>>

\* app.py 171: a file was uploaded and the button pressed, the pipeline runs
AccessPipeline ==
    /\ app.pc = "form"
    /\ app' = [app EXCEPT !.pc = "pipeline"]
    /\ UNCHANGED <<gen_vars, prov, runs>>

NextAccess ==
    \/ AccessCheck
    \/ AccessForm
    \/ AccessPipeline

\* one request to the process
AccessInit ==
    \E environ \in AccessEnvirons, headers \in RequestHeaders :
        app = [pc |-> "request", environ |-> environ, headers |-> headers,
               checked |-> FALSE, error |-> <<>>]

InitAccess == GenInit /\ ProvIdle /\ RunsIdle /\ AccessInit

SpecAccess == InitAccess /\ [][NextAccess]_vars

\* =================================================================== claims
IsPrefix(s, t) == Len(s) <= Len(t) /\ SubSeq(t, 1, Len(s)) = s

Returned == pc = "returned"

\* number of planned sections and the title stage 4 uses for the j-th
NumPlanned ==
    IF "sections" \in DOMAIN podcast_structure THEN Len(podcast_structure.sections) ELSE 0

PlannedTitle(j) ==
    IF "title" \in DOMAIN podcast_structure.sections[j]
    THEN podcast_structure.sections[j].title
    ELSE "Section " \o ToString(j)

AllFallbacks == {<<1, 0>>, <<2, 0>>, <<3, 0>>, <<4, 1>>, <<4, 2>>, <<4, 3>>, <<5, 0>>, <<6, 0>>}

\* C1: once the client is built, whatever backend calls fail (up to every
\* call of every stage, the other calls answering regularly), the call does
\* not raise and the script it returns has at least one turn.
C1_FailuresNeverRaiseNorEmpty ==
    /\ messages # <<>> => pc # "raised"
    /\ (Returned /\ irregular = 0) => Len(response.podcast.script) >= 1

\* C1 witness: a run in which every stage and every section fell back
W1_EveryStageFailed ==
    /\ Returned
    /\ irregular = 0
    /\ fell_back = AllFallbacks
    /\ Len(response.podcast.script) >= 1

\* C2: no exception of a document_to_podcast_script call reaches the caller,
\* the setup before stage 1 included; the critical path returns exactly two
\* turns (voice_1 then voice_2) and every step appended before the failure.
C2_NothingPropagates ==
    /\ pc # "raised"
    /\ (Returned /\ return_path = "critical") =>
          /\ Len(response.podcast.script) = 2
          /\ response.podcast.script[1].name = voice_1
          /\ response.podcast.script[2].name = voice_2
          /\ response.generation_steps = generation_steps

\* C3: every response returned has config.language and a script that is not
\* empty, for every shape of accepted backend response.
C3_LanguageAndTurns ==
    Returned =>
        /\ "language" \in DOMAIN response.podcast.config
        /\ Len(response.podcast.script) >= 1

\* where the run stands after the fallback f
ContinuesAt(f) ==
    CASE f = <<1, 0>> -> "step2"
      [] f = <<2, 0>> -> "step3"
      [] f = <<3, 0>> -> "step4_head"
      [] f[1] = 4 -> "step4_head"
      [] f = <<5, 0>> -> "step6"
      [] f = <<6, 0>> -> "returned"

\* C4: the step in which a stage (or section) falls back leaves the run at
\* the statement after that stage, a run that returns on the normal path has
\* made a backend call for every stage, and a run whose only deviations are
\* failed calls never returns before stage 6 was attempted.
C4_FallbackContinues ==
    /\ [][\A f \in fell_back' \ fell_back : pc' = ContinuesAt(f)]_vars
    /\ []((Returned /\ return_path = "normal") =>
             /\ {1, 2, 3, 5, 6} \subseteq attempted
             /\ NumPlanned > 0 => 4 \in attempted)
    /\ []((Returned /\ irregular = 0) => 6 \in attempted)

\* C4 witness: stages 1 and 2 and a section fell back, stage 6 was called
W4_FailedEarlyReachedSix ==
    /\ Returned
    /\ {<<1, 0>>, <<2, 0>>, <<4, 1>>} \subseteq fell_back
    /\ <<6, 0>> \notin fell_back
    /\ 6 \in attempted

\* the step name of the k-th record of a run with n planned sections
SuccessName(k, n) ==
    CASE k = 1 -> "Content Analysis"
      [] k = 2 -> "Structure Planning"
      [] k = 3 -> "Character Development"
      [] k > 3 /\ k <= 3 + n -> "Section Generation: " \o PlannedTitle(k - 3)
      [] k = 4 + n -> "Review and Refinement"
      [] k = 5 + n -> "Script Finalization"

FallbackSuffix(k, n) ==
    CASE k <= 3 -> " (Recovery)"
      [] k > 3 /\ k <= 3 + n -> " (Fallback)"
      [] k = 4 + n -> " (Minimal)"
      [] k = 5 + n -> " (Emergency)"

C6_StepsAppendOnly ==
    /\ [][IsPrefix(generation_steps, generation_steps')]_vars
    /\ [](Returned => response.generation_steps = generation_steps)

\* C6 witness: the critical path returns the three records appended before it
W6_CriticalKeepsSteps ==
    /\ Returned
    /\ return_path = "critical"
    /\ Len(response.generation_steps) >= 3

\* C7: the usage returned sums the token counts of exactly the responses
\* that execute_react_step_with_retry returned.
C7_UsageCountsAccepted ==
    Returned =>
        /\ response.usage.prompt_tokens = accepted_prompt
        /\ response.usage.completion_tokens = accepted_completion

AppStages == <<"document", "script", "ssml", "speech", "costs", "present">>

\* C8: the pipeline runs document conversion, script generation, markup,
\* synthesis, costs, presentation in that order, each started only with the
\* result of the one before it.
C8_StagesInOrder ==
    /\ IsPrefix(app.log, AppStages)
    /\ Len(app.log) >= 2 => app.document_response # None
    /\ Len(app.log) >= 3 => app.podcast_response # None
    /\ Len(app.log) >= 4 => app.ssml # None
    /\ Len(app.log) >= 5 => app.audio # None
    /\ Len(app.log) >= 6 => app.costs # None /\ app.final_audio
    /\ app.presented => Len(app.log) = 6
    /\ app.speech_requests # <<>> => app.podcast_response # None

\* C8 witness: a run that went through all stages
W8_FullRun ==
    /\ app.pc = "done"
    /\ app.presented
    /\ app.log = AppStages
    /\ app.document_requests = 1

\* C9: when the document stage or the speech stage raises, the run ends with
\* that error: nothing runs afterwards, no later stage has started, no cost
\* is computed, final_audio stays unset and nothing is presented.
C9_StageErrorAborts ==
    /\ [][app.error # "" => app' = app]_vars
    /\ [](app.error # "" =>
            /\ app.pc = "error"
            /\ app.costs = None
            /\ ~app.final_audio
            /\ ~app.presented
            /\ app.audio = None
            /\ app.log[Len(app.log)] = "document" =>
                  /\ app.podcast_response = None
                  /\ app.ssml = None
                  /\ app.speech_requests = <<>>)

\* C9 witness: the speech stage raised after document and script succeeded
W9_SpeechRaised ==
    /\ app.pc = "error"
    /\ app.log = <<"document", "script", "ssml", "speech">>
    /\ app.error = "Speech synthesis canceled"
    /\ ~app.final_audio

\* C10: every request sent to the speech backend has at most 50 voice
\* elements, also for scripts of more than 50 turns.
C10_RequestsWithinVoiceLimit ==
    \A k \in 1..Len(app.speech_requests) : app.speech_requests[k] <= VoiceLimit


\* the entity references escaping produces
Entities == {amp, lt, gt, quot, apos}

\* a text that holds no raw < > " ' and no & other than the start of an entity
IsEscaped(text) ==
    \A i \in 1..Len(text) :
        /\ text[i] \notin {"<", ">", "\"", "'"}
        /\ text[i] = "&" =>
              \E e \in Entities :
                  /\ i + Len(e) - 1 <= Len(text)
                  /\ SubSeq(text, i, i + Len(e) - 1) = e

Builders == {"utils.ssml", "utils.chunks", "azure.ssml", "multitalker.ssml",
             "basic.ssml"}

\* the speak documents the last call returned (several for the chunked builder)
MarkupsBuilt ==
    IF prov.last.op = "utils.chunks"
    THEN {prov.last.result.value[j] : j \in DOMAIN prov.last.result.value}
    ELSE {prov.last.result.value}

\* C11: in the markup any builder returns (utils.speech.podcast_script_to_ssml,
\* podcast_script_to_ssml_chunks, each provider's podcast_script_to_ssml) the
\* text of every element is entity-escaped: it holds no raw < > " ' and no &
\* that does not start an entity.
C11_MessagesEscaped ==
    \A op \in Builders :
        BuiltBy(op) =>
            \A m \in MarkupsBuilt :
                \A k \in 1..Len(m.voices) : IsEscaped(m.voices[k].text)

\* the speaker labels of a line, whichever key carries them
Label(line) == IF "name" \in DOMAIN line THEN line.name ELSE line.speaker

\* the two canonical speakers of each layout
Canonical == {voice_1, voice_2, "speaker_1", "speaker_2"}

\* C12: a script with a turn whose speaker label is not one of the two
\* canonical speakers fails validation: no builder returns markup for it, so
\* the turn gets no voice and is never sent to the speech backend.
C12_UnknownSpeakerRejected ==
    \A op \in Builders :
        BuiltBy(op) =>
            \A k \in 1..Len(prov.last.input.script) :
                Label(prov.last.input.script[k]) \in Canonical


TtsOps == {"utils.tts", "azure.tts", "multitalker.tts"}

\* the backend answered the last text_to_speech call with this reason
Answered(reasons) ==
    /\ prov.last # None
    /\ prov.last.op \in TtsOps
    /\ "result" \in DOMAIN prov.last.input
    /\ prov.last.input.result.reason \in reasons

\* C15: text_to_speech (utils.speech and both Azure providers) returns audio
\* only for a result with reason SynthesizingAudioCompleted; a Canceled result
\* raises an error that carries the backend's error details, and any other
\* reason raises too.
C15_AudioOnlyWhenCompleted ==
    /\ (prov.last # None /\ prov.last.op \in TtsOps
        /\ prov.last.result.kind = "return")
          => Answered({"SynthesizingAudioCompleted"})
    /\ Answered({"Canceled"}) =>
          /\ prov.last.result.kind = "raise"
          /\ prov.last.result.error[2] =
                prov.last.input.result.cancellation_details.error_details
    /\ Answered({"SynthesizingAudioStarted"}) => prov.last.result.kind = "raise"

\* a cancellation with error details was raised by a provider
W15_CanceledRaised ==
    /\ Answered({"Canceled"})
    /\ prov.last.op = "azure.tts"
    /\ prov.last.input.result.cancellation_details.error_details = "quota exceeded"
    /\ prov.last.result.kind = "raise"


\* the MIME types of txt and md uploads
TextTypes == {"text/plain", "text/markdown"}

\* C14: for a txt or md upload the document stage calls no remote backend; the
\* text is the UTF-8 decoding of the uploaded bytes, the page count is 0 and
\* the document cost of the run is 0.
C14_TextPathLocal ==
    app.pc # "idle" /\ app.file_type \in TextTypes =>
        /\ app.document_requests = 0
        /\ app.document_response # None =>
              /\ decode(app.bytes_data).ok
              /\ app.document_response.markdown = decode(app.bytes_data).text
              /\ app.document_response.pages = 0
        /\ app.costs # None => app.costs.document = 0

\* a markdown upload with a two-byte character went through the whole run
W14_MarkdownRunPresented ==
    /\ app.pc = "done"
    /\ app.file_type = "text/markdown"
    /\ app.bytes_data = <<35, 195, 169>>
    /\ app.document_response.markdown = <<"#", "U+233">>
    /\ app.costs.document = 0
    /\ app.presented


\* the file types the function or provider behind a conversion declares
SupportedBy(op) ==
    IF op = "markitdown" THEN MarkItDownProvider_supported_file_types
    ELSE supported_file_types

\* C13: a file whose type is outside the supported file type set is rejected
\* with an error before any conversion is attempted: the call raises and
\* neither a backend request nor a conversion is made for it.
C13_UnsupportedTypeRejected ==
    \A i \in 1..Len(prov.calls) :
        prov.calls[i].file.ext \notin SupportedBy(prov.calls[i].op) =>
            /\ prov.calls[i].result.kind = "raise"
            /\ ~prov.calls[i].backend

\* C16: two calls of document_to_markdown with byte-identical input return
\* equal DocumentResponse values (markdown, pages, cost), whatever conversions
\* happen between them.
C16_SameBytesSameResponse ==
    \A i, j \in 1..Len(prov.calls) :
        /\ i < j
        /\ prov.calls[i].key = prov.calls[j].key
        /\ prov.calls[i].result.kind = "return"
        /\ prov.calls[j].result.kind = "return"
        => prov.calls[i].result.value = prov.calls[j].result.value

\* the same bytes were converted twice by the provider with another
\* conversion in between, and the second answer came from the cache
W16_RepeatedAfterOther ==
    /\ Len(prov.calls) = 3
    /\ prov.calls[1].op = "azure" /\ prov.calls[3].op = "azure"
    /\ prov.calls[1].key = prov.calls[3].key
    /\ prov.calls[2].op = "azure" /\ prov.calls[2].key # prov.calls[1].key
    /\ \A i \in 1..3 : prov.calls[i].result.kind = "return"
    /\ prov.calls[2].result.value.pages # prov.calls[1].result.value.pages
    /\ ~prov.calls[3].backend


\* the stored config of a kind
StoredOf(self, kind) ==
    CASE kind = "document" -> self.document_provider_config
      [] kind = "llm" -> self.llm_provider_config
      [] kind = "speech" -> self.speech_provider_config

ClassOf(self, kind) ==
    CASE kind = "document" -> self.document_provider
      [] kind = "llm" -> self.llm_provider
      [] kind = "speech" -> self.speech_provider

\* the entry of a kind in a dict organized by kind ({} without one, or
\* when the dict is None)
EntryOf(dict, kind) ==
    IF dict = None THEN <<>> ELSE Get(dict, kind, <<>>)

\* the three layers of a kind, in the order in which they are applied
LayersOf(kind) ==
    <<StoredOf(prov.self, kind), EntryOf(prov.default_options, kind),
      EntryOf(prov.kwargs, kind)>>

OptionKeys ==
    {"endpoint", "api_key", "model", "temperature", "speaker_1", "speaker_2",
     "voice_1", "voice_2", "colour"}

\* C17: Configuration.create_providers passes to each constructor, for every
\* option key, the value of the last layer that defines it (stored config,
\* then default_options[kind], then kwargs[kind]); a key no layer defines is
\* not passed and the provider keeps its environment or hard-coded default.
C17_LastLayerWins ==
    prov.called = "Configuration" =>
        \A kind \in Kinds, key \in OptionKeys :
            LET defining == {n \in 1..3 : key \in DOMAIN LayersOf(kind)[n]}
                last == CHOOSE n \in defining : \A m \in defining : m <= n
            IN  IF defining # {}
                THEN /\ key \in DOMAIN prov.args[kind]
                     /\ prov.args[kind][key] = LayersOf(kind)[last][key]
                ELSE /\ key \notin DOMAIN prov.args[kind]
                     /\ key \in DOMAIN prov.providers[kind] =>
                           prov.providers[kind][key] =
                               Construct(ClassOf(prov.self, kind), <<>>)[key]

\* the llm model is defined by all three layers, the temperature only by the
\* stored config, speaker_2 by none
W17_ThreeLayersOneKey ==
    /\ prov.called = "Configuration"
    /\ prov.self.llm_provider_config = [model |-> "stored-model", temperature |-> 1]
    /\ prov.default_options # None
    /\ EntryOf(prov.default_options, "llm") = [model |-> "default-model"]
    /\ EntryOf(prov.kwargs, "llm") = [model |-> "advanced-model", speaker_1 |-> "Kim"]
    /\ prov.providers.llm.model = "advanced-model"
    /\ prov.providers.llm.temperature = 1
    /\ prov.providers.llm.speaker_2 = "Ava"


\* a configuration with another stored config for one kind
WithStored(self, kind, config) ==
    CASE kind = "document" -> [self EXCEPT !.document_provider_config = config]
      [] kind = "llm" -> [self EXCEPT !.llm_provider_config = config]
      [] kind = "speech" -> [self EXCEPT !.speech_provider_config = config]

\* the dicts organized by kind that differ from dict at most in the entry of
\* kind: another entry from options, or no entry
WithEntry(dict, kind, options) ==
    LET d == IF dict = None THEN <<>> ELSE dict
    IN  {[k \in DOMAIN d \cup {kind} |-> IF k = kind THEN v ELSE d[k]] :
            v \in options}
        \cup {[k \in DOMAIN d \ {kind} |-> d[k]]}

\* C18: the options of one kind never influence another provider: with only
\* the entries under kind X changed (stored config, default_options, kwargs)
\* the constructor arguments and the providers of the other two kinds are the
\* same, and the result has exactly the keys document, llm and speech.  Checked
\* for Configuration.create_providers and Profile.create_providers.
C18_KindsDoNotInterfere ==
    prov.called # "" =>
        /\ DOMAIN prov.providers = Kinds
        /\ \A X \in Kinds :
            \A stored \in StoredOptions(X),
               default_options \in WithEntry(prov.default_options, X,
                                             DefaultOptions(X)),
               kwargs \in WithEntry(prov.kwargs, X, AdvancedOptions(X)) :
                LET self == WithStored(prov.self, X, stored)
                    args == IF prov.called = "Configuration"
                            THEN create_providers_args(self, default_options,
                                                       kwargs)
                            ELSE Profile_create_providers_args(self, kwargs)
                    providers == IF prov.called = "Configuration"
                                 THEN create_providers(self, default_options,
                                                       kwargs)
                                 ELSE Profile_create_providers(self, kwargs)
                IN  \A Y \in Kinds \ {X} :
                        /\ args[Y] = prov.args[Y]
                        /\ providers[Y] = prov.providers[Y]

\* providers were created from options for all three kinds, and other llm
\* options would have given another llm provider
W18_AllKindsConfigured ==
    /\ prov.called = "Configuration"
    /\ \A kind \in Kinds : prov.args[kind] # <<>>
    /\ prov.default_options # None
    /\ DOMAIN prov.default_options = Kinds
    /\ DOMAIN prov.kwargs = Kinds
    /\ \E kwargs \in WithEntry(prov.kwargs, "llm", AdvancedOptions("llm")) :
          create_providers(prov.self, prov.default_options, kwargs).llm
              # prov.providers.llm


OwnEntries(a, r) ==
    \A k \in 1..Len(runs.heap[a]) : runs.heap[a][k].run = r

\* C20: two interleaved generation runs share no mutable state: the
\* transcript, generation_steps and sections of a run hold only entries of
\* that run (two opening messages, then three messages, one step and one section
\* for each of its own backend calls), its token totals count its own calls
\* only, and the cost a speech provider instance holds is the one of the call
\* made on that instance.
C20_RunsShareNothing ==
    \A r \in RunIds :
        /\ runs.run[r].pc # "new" =>
              /\ OwnEntries(runs.run[r].messages, r)
              /\ OwnEntries(runs.run[r].generation_steps, r)
              /\ OwnEntries(runs.run[r].sections, r)
              /\ Len(runs.heap[runs.run[r].messages]) = 2 + 3 * runs.run[r].calls
              /\ Len(runs.heap[runs.run[r].generation_steps]) = runs.run[r].calls
              /\ Len(runs.heap[runs.run[r].sections]) = runs.run[r].calls
              /\ runs.run[r].total_prompt_tokens =
                    runs.run[r].calls * RunUsage(r).prompt_tokens
              /\ runs.run[r].total_completion_tokens =
                    runs.run[r].calls * RunUsage(r).completion_tokens
        /\ IF runs.run[r].pc = "done"
           THEN self_cost(runs.speech[r]) = 3000 * 2 * r
           ELSE self_cost(runs.speech[r]) = 0

\* both runs went to the end taking turns step by step, each with all its
\* calls, and the two instances hold different costs
W20_AlternatingRuns ==
    /\ \A r \in RunIds : runs.run[r].pc = "done" /\ runs.run[r].calls = MaxRunCalls
    /\ \A k \in 1..Len(runs.trace) : runs.trace[k] = 2 - (k % 2)
    /\ self_cost(runs.speech[1]) = 6000
    /\ self_cost(runs.speech[2]) = 12000

\* C21: for every script, the speech cost the pipeline reports
\* (calculate_azure_ai_speech_costs over the script's message lengths) equals
\* the cost AzureSpeechProvider holds after building the markup of the same
\* script, both being 30 x (message characters of the script) / 1,000,000.
C21_SpeechCostsAgree ==
    BuiltBy("azure.ssml") =>
        /\ self_cost(prov.speech) =
              calculate_azure_ai_speech_costs(SumLen(prov.podcast.script))
        /\ self_cost(prov.speech) = 3000 * SumLen(prov.podcast.script)

\* the sleep times the k-th retry can be preceded by: initial_retry_delay x
\* 2^(k-1) x j with j between 0.8 and 1.2
SleepRange(k) ==
    (initial_retry_delay * Pow2(k - 1) * 8)..(initial_retry_delay * Pow2(k - 1) * 12)

C23_SectionCallBudget ==
    pc = "step4" =>
        /\ section_calls + 1 <= max_retries + 1
        /\ section_calls = 0 => section_retry_count = 0

\* C24: document_to_podcast_script terminates (returns or raises) for every
\* backend behaviour in which each call returns a response or raises, a
\* backend that answers every section-generation call without tool call
\* included.
C24_Terminates == <>(pc \in {"returned", "raised"})

\* the stage, or the section of stage 4, a call of execute was made for, as
\* the key it has in fell_back
CallKey(at) ==
    CASE at[1] = "step1" -> <<1, 0>>
      [] at[1] = "step2" -> <<2, 0>>
      [] at[1] = "step3" -> <<3, 0>>
      [] at[1] = "step4" -> <<4, at[2]>>
      [] at[1] = "step5" -> <<5, 0>>
      [] at[1] = "step6" -> <<6, 0>>

\* C25: an exception from a stage's backend call that is not an APIError,
\* RateLimitError or APIConnectionError is not retried: once the call has
\* raised it, the stage or section it was made for has gone to its fallback
\* and makes no further backend call.
C25_OtherErrorsNotRetried ==
    (last_exec.result = "raise" /\ last_exec.cause = "error") =>
        /\ CallKey(last_exec.at) \in fell_back
        /\ ~(pc = last_exec.at[1] /\ sec_i = last_exec.at[2])

\* sum(section["duration"] for section in plan["sections"]) of a three-section
\* plan, added left to right as floats
DurationSum(plan) ==
    FloatAdd(FloatAdd(plan.sections[1].duration, plan.sections[2].duration),
             plan.sections[3].duration)

\* C26: when stage 2 fails, the recorded fallback plan has exactly the three
\* sections Introduction, Main Content, Conclusion with durations 20%, 60%
\* and 20% of the requested duration, the sum of the section durations equals
\* total_duration, which equals the requested duration, and stage 4 goes
\* through exactly these three sections in that order.
C26_FallbackPlanSplit ==
    <<2, 0>> \in fell_back =>
        /\ Len(podcast_structure.sections) = 3
        /\ [j \in 1..3 |-> podcast_structure.sections[j].title]
              = <<"Introduction", "Main Content", "Conclusion">>
        /\ podcast_structure.sections[1].duration = FloatMul(duration, Float_0_2)
        /\ podcast_structure.sections[2].duration = FloatMul(duration, Float_0_6)
        /\ podcast_structure.sections[3].duration = FloatMul(duration, Float_0_2)
        /\ podcast_structure.total_duration = duration
        /\ DurationSum(podcast_structure) = Float(podcast_structure.total_duration)
        /\ \E k \in 1..Len(generation_steps) :
              /\ generation_steps[k].step = "Structure Planning (Recovery)"
              /\ generation_steps[k].action = podcast_structure
        /\ pc = "step4" =>
              /\ sec_i \in 1..3
              /\ section_title = podcast_structure.sections[sec_i].title
        /\ pc \in {"step5", "step6"} => sec_i = 4

\* the call of stage 6 raised
Stage6Failed ==
    /\ Returned
    /\ last_exec.result = "raise"
    /\ last_exec.at[1] = "step6"

\* C27: when stage 6 fails, the returned script is two intro turns (voice_1
\* then voice_2), then every dialogue line of every collected section in
\* collection order, then four outro turns if and only if the script had
\* fewer than 6 turns at that point; it has at least 6 turns and its
\* config.language is en-US.
C27_EmergencyScriptShape ==
    Stage6Failed =>
        LET script == response.podcast.script IN
        /\ Len(script) >= 6
        /\ response.podcast.config.language = "en-US"
        /\ script[1].name = voice_1
        /\ script[2].name = voice_2
        /\ LET body == AllSectionTurns(sections) IN
           /\ SubSeq(script, 3, 2 + Len(body)) = body
           /\ Len(script) = 2 + Len(body) + (IF 2 + Len(body) < 6 THEN 4 ELSE 0)
           /\ 2 + Len(body) < 6 =>
                 [k \in 1..4 |-> script[2 + Len(body) + k].name]
                    = <<voice_1, voice_2, voice_1, voice_2>>

\* C28: after stage 4 the collected sections hold exactly one entry per
\* planned section, in plan order (so the stage-6 fallback script carries the
\* dialogue of every planned section and none is overwritten by another's),
\* also when the model returns another section_title than the planned one or
\* two sections carry the same title.
C28_OneEntryPerSection ==
    pc \in {"step5", "step6"} =>
        /\ Len(sections) = NumPlanned
        /\ \A j \in 1..Len(sections) :
              \/ sections[j][2].section_title = PlannedTitle(j)
              \/ \E k \in 1..Len(generation_steps) :
                    /\ generation_steps[k].action = sections[j][2]
                    /\ generation_steps[k].step =
                          "Section Generation: " \o PlannedTitle(j)

\* C29: the transcript of a run is only appended to, so the list passed to a
\* backend call has the list of every earlier call as a prefix, and every
\* stage or section that completes before a later call, by success or by
\* fallback, adds at least one message to it.
C29_TranscriptAppendOnly ==
    [][/\ IsPrefix(messages, messages')
       /\ (Len(generation_steps') > Len(generation_steps) /\ pc' # "returned")
             => Len(messages') > Len(messages)]_vars

\* C29 witness: the last call of a run is about to be made, after stages that
\* succeeded and stages and a section that fell back
W29_MixedTranscript ==
    /\ pc = "step6"
    /\ {<<2, 0>>, <<4, 1>>, <<5, 0>>} \subseteq fell_back
    /\ <<1, 0>> \notin fell_back
    /\ <<4, 2>> \notin fell_back
    /\ Len(generation_steps) = 7
    /\ Len(messages) > 2 + Len(generation_steps)

\* positions of the transcript that hold an assistant message with tool_calls
ToolCallPositions == {k \in 1..Len(messages) : messages[k].tool_calls # <<>>}

\* C30: in the transcript of a run every assistant message that carries
\* tool_calls is immediately followed by a tool message with the same
\* tool_call_id, and all tool_call_ids of the run are pairwise distinct, on
\* success paths and on recovery and fallback paths.
C30_ToolCallsPaired ==
    /\ \A k \in ToolCallPositions :
          /\ messages[k].role = "assistant"
          /\ k < Len(messages)
          /\ messages[k + 1].role = "tool"
          /\ messages[k + 1].tool_call_id = messages[k].tool_calls[1]
    /\ \A j, k \in ToolCallPositions :
          j # k => messages[j].tool_calls[1] # messages[k].tool_calls[1]
    /\ \A k \in 1..Len(messages) :
          messages[k].role = "tool" => (k - 1) \in ToolCallPositions

\* C30 witness: a transcript with two calls of success paths and three of
\* recovery and fallback paths
W30_SuccessAndRecoveryCalls ==
    /\ pc = "step6"
    /\ Cardinality({k \in ToolCallPositions : messages[k].tool_calls[1][1] = "call"}) >= 2
    /\ Cardinality({k \in ToolCallPositions :
                       messages[k].tool_calls[1][1] = "recovery_call"}) >= 3

\* C31: in every response returned, on the normal path and on the path of
\* the outer handler, usage.total_tokens = usage.prompt_tokens +
\* usage.completion_tokens, the two being the running totals of the run, and
\* neither running total ever decreases during a run.
C31_TotalTokensAddUp ==
    /\ [](Returned =>
            /\ response.usage.total_tokens =
                  response.usage.prompt_tokens + response.usage.completion_tokens
            /\ response.usage.prompt_tokens = total_prompt_tokens
            /\ response.usage.completion_tokens = total_completion_tokens)
    /\ [][/\ total_prompt_tokens' >= total_prompt_tokens
          /\ total_completion_tokens' >= total_completion_tokens]_vars

\* C31 witness: the outer handler returns after calls whose usage was added
W31_CriticalWithTokens ==
    /\ Returned
    /\ return_path = "critical"
    /\ response.usage.prompt_tokens > 0
    /\ response.usage.completion_tokens > 0
    /\ response.usage.total_tokens > response.usage.prompt_tokens

\* ceil(n / VoiceLimit)
CeilByLimit(n) ==
    IF n % VoiceLimit = 0 THEN n \div VoiceLimit ELSE n \div VoiceLimit + 1

RECURSIVE VoicesOf(_)
\* the voice elements of a list of chunks, read in chunk order
VoicesOf(chunks) ==
    IF chunks = <<>> THEN <<>>
    ELSE Head(chunks).voices \o VoicesOf(Tail(chunks))

\* C32: podcast_script_to_ssml_chunks on a script of n turns returns exactly
\* ceil(n/50) chunks, each a speak document in the script's language with
\* between 1 and 50 voice elements, and the voice elements of the chunks read
\* in chunk order are the turns of the script in their order, none lost and
\* none duplicated.
C32_ChunksCoverScript ==
    (prov.last # None /\ prov.last.op = "utils.chunks") =>
        /\ prov.last.result.kind = "return"
        /\ LET script == prov.last.input.script
               chunks == prov.last.result.value
           IN  /\ Len(chunks) = CeilByLimit(Len(script))
               /\ \A j \in 1..Len(chunks) :
                     /\ chunks[j].language = prov.last.input.config.language
                     /\ Len(chunks[j].voices) \in 1..VoiceLimit
               /\ Len(VoicesOf(chunks)) = Len(script)
               /\ \A k \in 1..Len(script) :
                     /\ VoicesOf(chunks)[k].text = script[k].message
                     /\ VoicesOf(chunks)[k].name =
                           Get(AZURE_HD_VOICES, script[k].name,
                               AZURE_HD_VOICES["Andrew"])

\* C32 witness: a script of more than 100 turns came back in three chunks,
\* the last one partly filled
W32_ThreeChunks ==
    /\ BuiltBy("utils.chunks")
    /\ Len(prov.last.input.script) > 2 * VoiceLimit
    /\ Len(prov.last.input.script) % VoiceLimit # 0
    /\ Len(prov.last.result.value) = 3

\* C33 as stated: for every script of at most 50 turns
\* podcast_script_to_ssml_chunks returns exactly one chunk, equal to the
\* output of podcast_script_to_ssml for the same script.  The empty script
\* gives no chunk.
C33_SingleChunkUpToLimit ==
    (/\ prov.last # None
     /\ prov.last.op = "utils.chunks"
     /\ Len(prov.last.input.script) <= VoiceLimit) =>
        /\ prov.last.result.kind = "return"
        /\ Len(prov.last.result.value) = 1
        /\ prov.last.result.value[1] = podcast_script_to_ssml(prov.last.input)

\* C33, amended: for every script of 1 to 50 turns
\* podcast_script_to_ssml_chunks returns exactly one chunk, equal to the
\* output of podcast_script_to_ssml for the same script.
C33_SingleChunkFromOneToLimit ==
    (/\ prov.last # None
     /\ prov.last.op = "utils.chunks"
     /\ Len(prov.last.input.script) \in 1..VoiceLimit) =>
        /\ prov.last.result.kind = "return"
        /\ Len(prov.last.result.value) = 1
        /\ prov.last.result.value[1] = podcast_script_to_ssml(prov.last.input)

\* C33 witness: a script of exactly 50 turns came back as one chunk
W33_FullSingleChunk ==
    /\ BuiltBy("utils.chunks")
    /\ Len(prov.last.input.script) = VoiceLimit
    /\ Len(prov.last.result.value) = 1
    /\ Len(prov.last.result.value[1].voices) = VoiceLimit

\* the character an entity stands for
CharOf(e) ==
    CASE e = amp -> "&" [] e = lt -> "<" [] e = gt -> ">"
      [] e = quot -> "\"" [] e = apos -> "'"

\* the entities a text starts with (one at most)
EntityAt(text) ==
    {e \in Entities : Len(e) <= Len(text) /\ SubSeq(text, 1, Len(e)) = e}

RECURSIVE unescape(_)
\* the text with every entity replaced back, in one pass from the left
unescape(text) ==
    IF text = <<>> THEN <<>>
    ELSE IF EntityAt(text) # {}
    THEN LET e == CHOOSE x \in EntityAt(text) : TRUE
         IN  <<CharOf(e)>> \o unescape(SubSeq(text, Len(e) + 1, Len(text)))
    ELSE <<Head(text)>> \o unescape(Tail(text))

\* C34: the providers' escaping is reversible and never double-escapes: for
\* every message, replacing the five entities back in the escaped text gives
\* the message, and the escaped text holds no raw < > " ' and no & other than
\* the first character of one of the five entities.
C34_EscapeRoundTrip ==
    (prov.last # None /\ prov.last.op \in {"azure.escape", "basic.escape"}) =>
        /\ unescape(prov.last.result) = prov.last.input
        /\ IsEscaped(prov.last.result)

\* C34 witness: a message that reads like an entity was escaped, its & only
W34_EntityLikeMessage ==
    /\ prov.last # None
    /\ prov.last.op = "basic.escape"
    /\ prov.last.input = lt
    /\ prov.last.result = amp \o <<"l", "t", ";">>

\* C35: synthesize_in_chunks makes exactly one backend call per chunk, in
\* chunk order, and returns the decoded chunk audio joined in that order as
\* one buffer; it raises, and returns no partial audio, if and only if the
\* synthesis of a chunk failed.
C35_OneCallPerChunk ==
    LET synth == prov.synth IN
    /\ Len(synth.requests) <= Len(synth.ssml_chunks)
    /\ synth.requests = SubSeq(synth.ssml_chunks, 1, Len(synth.requests))
    /\ synth.pc = "loop" => Len(synth.requests) = Len(synth.segments)
    /\ synth.pc = "done" =>
          /\ synth.result.kind = "return" <=>
                Len(synth.segments) = Len(synth.ssml_chunks)
          /\ synth.result.kind = "return" =>
                /\ synth.requests = synth.ssml_chunks
                /\ synth.result.value =
                      RIFF \o [j \in 1..Len(synth.ssml_chunks) |-> j]

\* C36: for any sequence of podcast_script_to_ssml and text_to_speech calls
\* on one AzureSpeechProvider instance, the cost in the SpeechResponse that
\* text_to_speech(ssml) returns is the cost of the script from which that
\* ssml was generated, as podcast_script_to_ssml computed it.
C36_CostOfSynthesizedScript ==
    (/\ prov.last # None
     /\ prov.last.op = "azure.tts"
     /\ prov.last.result.kind = "return") =>
        prov.last.result.value.cost =
            3000 * SumEscaped(prov.built[prov.last.input.built].podcast.script)

\* C37: AzureSpeechMultitalker.text_to_speech, given the markup its own
\* podcast_script_to_ssml produced for a script, reports on success a cost of
\* 30 x (total message characters of that script) / 1,000,000, here in units
\* of 10^-8 USD.
C37_MultitalkerCost ==
    (/\ prov.last # None
     /\ prov.last.op = "multitalker.tts"
     /\ prov.last.result.kind = "return") =>
        prov.last.result.value.cost = 3000 * SumLen(prov.podcast.script)

\* C38: create_providers leaves the stored document, llm and speech config
\* dicts of the Configuration (or Profile) object unchanged, so the overrides
\* given to one call never reach the providers a later call on the same
\* object builds: every call builds what it builds on a fresh object.
C38_StoredConfigsUnchanged ==
    /\ prov.self = FrameSelf(prov.constructed)
    /\ prov.heap[prov.self.document_provider_config] =
          prov.constructed.document_provider_config
    /\ prov.heap[prov.self.llm_provider_config] =
          prov.constructed.llm_provider_config
    /\ prov.heap[prov.self.speech_provider_config] =
          prov.constructed.speech_provider_config
    /\ prov.last # None =>
          prov.last.result =
             IF prov.last.op = "Configuration"
             THEN create_providers(prov.constructed,
                                   prov.last.input.default_options,
                                   prov.last.input.kwargs)
             ELSE Profile_create_providers(prov.constructed,
                                           prov.last.input.kwargs)

\* C38 witness: a second call without overrides, after a call whose
\* overrides changed a stored value in its own copy
W38_SecondCallAfterOverrides ==
    /\ prov.creations = 2
    /\ prov.constructed.speech_provider = "AzureSpeechProvider"
    /\ prov.constructed.speech_provider_config # <<>>
    /\ prov.last.op = "Profile"
    /\ prov.last.input.kwargs = <<>>
    /\ prov.last.result.speech.voice_1 = "Brian"
    /\ \E d \in DOMAIN prov.heap :
          /\ "voice_1" \in DOMAIN prov.heap[d]
          /\ prov.heap[d].voice_1 = "Nova"

\* the request carries a tenant id claim that is in the authorized list
CarriesAuthorizedTenant ==
    /\ "X_Ms_Client_Principal" \in DOMAIN app.headers
    /\ "value" \in DOMAIN app.headers.X_Ms_Client_Principal
    /\ "claims" \in DOMAIN app.headers.X_Ms_Client_Principal.value
    /\ LET claims == app.headers.X_Ms_Client_Principal.value.claims
           tenants == split(app.environ.ENTRA_AUTHORIZED_TENANTS, ",")
       IN  \E k \in 1..Len(claims) :
              /\ claims[k].typ = tenantid
              /\ "val" \in DOMAIN claims[k]
              /\ \E t \in 1..Len(tenants) : tenants[t] = claims[k].val

\* C39: when ENTRA_AUTHORIZED_TENANTS is set, a request reaches the upload
\* form and the pipeline only if its client principal carries a tenant id
\* claim that is in the authorized list; every other request, including one
\* without the header or without a tenant id claim, is stopped with access
\* denied.
C39_OnlyAuthorizedTenants ==
    (/\ "ENTRA_AUTHORIZED_TENANTS" \in DOMAIN app.environ
     /\ app.environ.ENTRA_AUTHORIZED_TENANTS # <<>>) =>
        /\ app.pc \in {"page", "form", "pipeline"} => CarriesAuthorizedTenant
        /\ (app.pc # "request" /\ ~CarriesAuthorizedTenant) =>
              /\ app.pc = "stopped"
              /\ app.error = <<"Access denied.">>

====
